---- MODULE Spec2Model ----
(***************************************************************************)
(* A model of the AI-WAF decision pipeline: the policy, the LLM council,   *)
(* the score combiner, the orchestrator (analyzeInput, analyzeOutputSafety)*)
(* and the security log.                                                   *)
(***************************************************************************)
EXTENDS Integers, Sequences, FiniteSets, TLC

(***************************************************************************)
(* JavaScript Number arithmetic.  calculateCombinedScore computes in IEEE  *)
(* 754 doubles, and its result is rounded with Math.round, so the model    *)
(* computes in doubles: a non-negative double is [m, e], the value         *)
(* m * 2^e with m a 53-bit natural (a little-endian sequence of limbs in   *)
(* base 2^14, so that TLC's 32-bit integers never overflow), and every     *)
(* operation rounds its exact result to nearest, ties to even.             *)
(***************************************************************************)
LimbBits == 14
Base == 2^LimbBits
MantBits == 53

Max2(a, b) == IF a >= b THEN a ELSE b
Min2(a, b) == IF a <= b THEN a ELSE b

Limb(a, i) == IF i >= 1 /\ i <= Len(a) THEN a[i] ELSE 0

RECURSIVE BTrim(_)
BTrim(a) ==
    IF a # <<>> /\ a[Len(a)] = 0 THEN BTrim(SubSeq(a, 1, Len(a) - 1)) ELSE a

RECURSIVE BFromInt(_)
BFromInt(n) == IF n = 0 THEN <<>> ELSE <<n % Base>> \o BFromInt(n \div Base)

RECURSIVE BToIntAt(_, _)
BToIntAt(a, i) == IF i > Len(a) THEN 0 ELSE a[i] + Base * BToIntAt(a, i + 1)
BToInt(a) == BToIntAt(a, 1)

RECURSIVE BAddC(_, _, _, _)
\* the limbs of a + b from limb i on, s being the sum at limb i with its carry
BAddS(a, b, i, s) == <<s % Base>> \o BAddC(a, b, i + 1, s \div Base)
BAddC(a, b, i, c) ==
    IF i > Len(a) /\ i > Len(b) THEN BFromInt(c)
    ELSE BAddS(a, b, i, Limb(a, i) + Limb(b, i) + c)
BAdd(a, b) == BAddC(a, b, 1, 0)

RECURSIVE BSubC(_, _, _, _)
BSubS(a, b, i, s) ==
    <<IF s < 0 THEN s + Base ELSE s>> \o BSubC(a, b, i + 1, IF s < 0 THEN 1 ELSE 0)
BSubC(a, b, i, br) ==
    IF i > Len(a) THEN <<>> ELSE BSubS(a, b, i, a[i] - Limb(b, i) - br)
\* a - b for a >= b
BSub(a, b) == BTrim(BSubC(a, b, 1, 0))

RECURSIVE BMulC(_, _, _, _)
BMulS(a, k, i, s) == <<s % Base>> \o BMulC(a, k, i + 1, s \div Base)
BMulC(a, k, i, c) ==
    IF i > Len(a) THEN BFromInt(c) ELSE BMulS(a, k, i, a[i] * k + c)
\* a * k for a limb k
BMulSmall(a, k) == BTrim(BMulC(a, k, 1, 0))

BShiftLimbs(a, n) == IF a = <<>> THEN <<>> ELSE [i \in 1..n |-> 0] \o a

RECURSIVE BMulAt(_, _, _)
BMulAt(a, b, j) ==
    IF j > Len(b) THEN <<>>
    ELSE BAdd(BShiftLimbs(BMulSmall(a, b[j]), j - 1), BMulAt(a, b, j + 1))
BMul(a, b) == BMulAt(a, b, 1)

RECURSIVE BCmpAt(_, _, _)
BCmpAt(a, b, i) ==
    IF i = 0 THEN 0
    ELSE IF a[i] < b[i] THEN 0 - 1
    ELSE IF a[i] > b[i] THEN 1
    ELSE BCmpAt(a, b, i - 1)
\* the sign of a - b, for trimmed a and b
BCmp(a, b) ==
    IF Len(a) < Len(b) THEN 0 - 1
    ELSE IF Len(a) > Len(b) THEN 1
    ELSE BCmpAt(a, b, Len(a))

\* a * 2^k
BShl(a, k) == BShiftLimbs(BMulSmall(a, 2^(k % LimbBits)), k \div LimbBits)

\* floor(a / 2^(q * LimbBits + r)), a number of n limbs at most
BShrAt(a, q, r, n) ==
    IF n <= 0 THEN <<>>
    ELSE BTrim(<<>> \o [i \in 1..n |->
             (a[i + q] \div 2^r) + (Limb(a, i + q + 1) % 2^r) * 2^(LimbBits - r)])
\* floor(a / 2^k)
BShr(a, k) == BShrAt(a, k \div LimbBits, k % LimbBits, Len(a) - (k \div LimbBits))

\* a mod 2^k compared with 2^(k-1): the sign of 2 * (a mod 2^k) - 2^k, for k >= 1
BHalfCmp(a, k) == BCmp(BShl(BSub(a, BShl(BShr(a, k), k)), 1), BShl(<<1>>, k))

RECURSIVE BitsOf(_)
BitsOf(x) == IF x = 0 THEN 0 ELSE 1 + BitsOf(x \div 2)
BitLen(a) == IF a = <<>> THEN 0 ELSE (Len(a) - 1) * LimbBits + BitsOf(a[Len(a)])

RECURSIVE BFixDigit(_, _, _)
\* the greatest digit q <= the estimate with d * q <= r
BFixDigit(d, r, q) == IF BCmp(BMulSmall(d, q), r) > 0 THEN BFixDigit(d, r, q - 1) ELSE q

RECURSIVE BDivAt(_, _, _, _, _)
\* long division, one limb of a at a time from the top: r is the remainder
\* so far and acc the digits of the quotient so far
BDivNext(a, d, i, r2, acc) ==
    \* the remainder is computed before the next digit
    IF Len(r2) >= 0 THEN BDivAt(a, d, i - 1, r2, acc) ELSE [q |-> <<>>, r |-> <<>>]
BDivDigit(a, d, i, r1, acc, qd) ==
    BDivNext(a, d, i, BSub(r1, BMulSmall(d, qd)), <<qd>> \o acc)
BDivTop(a, d, i, r1, acc) ==
    BDivDigit(a, d, i, r1, acc,
        BFixDigit(d, r1,
            Min2(Base - 1,
                 (Limb(r1, Len(d) + 1) * Base + Limb(r1, Len(d))) \div d[Len(d)])))
BDivAt(a, d, i, r, acc) ==
    IF i = 0 THEN [q |-> BTrim(acc), r |-> r]
    ELSE BDivTop(a, d, i, BTrim(<<a[i]>> \o r), acc)
\* quotient and remainder of a by d, for d with its top limb >= Base / 2
BDivMod(a, d) == IF Len(a) >= 0 /\ Len(d) > 0 THEN BDivAt(a, d, Len(a), <<>>, <<>>)
                 ELSE [q |-> <<>>, r |-> <<>>]

FZero == [m |-> <<>>, e |-> 0]
FIsZero(x) == x.m = <<>>

\* q * 2^e, q of MantBits bits or, after a carry out of the rounding, one more
FNormFit(q, e) ==
    IF BitLen(q) > MantBits THEN [m |-> BShr(q, 1), e |-> e + 1] ELSE [m |-> q, e |-> e]
\* round to nearest, ties to even: c is the sign of the discarded part minus 1/2
FNormUp(q, e, c, sticky) ==
    FNormFit(IF c > 0 \/ (c = 0 /\ (sticky \/ q[1] % 2 = 1)) THEN BAdd(q, <<1>>) ELSE q, e)
\* n of len bits
FNormLen(n, e, sticky, len) ==
    IF len <= MantBits
    THEN [m |-> BShl(n, MantBits - len), e |-> e - (MantBits - len)]
    ELSE FNormUp(BShr(n, len - MantBits), e + (len - MantBits),
                 BHalfCmp(n, len - MantBits), sticky)
\* the double nearest to n * 2^e (plus a little, when sticky), ties to even
FNorm(n, e, sticky) ==
    IF n = <<>> THEN FZero ELSE FNormLen(n, e, sticky, BitLen(n))

\* an integer below 2^MantBits is a double: b * 2^k * 2^-k, with b * 2^k of
\* MantBits bits
FShifted(b, k) == [m |-> BShl(b, k), e |-> 0 - k]
FFromInt(n) == IF n = 0 THEN FZero ELSE FShifted(BFromInt(n), MantBits - BitLen(BFromInt(n)))

FMul(x, y) ==
    IF FIsZero(x) \/ FIsZero(y) THEN FZero
    ELSE FNorm(BMul(x.m, y.m), x.e + y.e, FALSE)

\* hi + lo for hi.e >= lo.e
FAddOrdered(hi, lo) == FNorm(BAdd(BShl(hi.m, hi.e - lo.e), lo.m), lo.e, FALSE)
FAdd(x, y) ==
    IF FIsZero(x) THEN y
    ELSE IF FIsZero(y) THEN x
    ELSE FAddOrdered(IF x.e >= y.e THEN x ELSE y, IF x.e >= y.e THEN y ELSE x)

FDivQR(qr, e) == FNorm(qr.q, e, qr.r # <<>>)
\* x / y for y > 0
FDiv(x, y) ==
    IF FIsZero(x) THEN FZero
    ELSE FDivQR(BDivMod(BShl(x.m, MantBits + 6), BShl(y.m, 3)),
                x.e - y.e - (MantBits + 3))

\* Math.round(x) for x >= 0: the nearest integer, a tie going up
FRound(x) ==
    IF FIsZero(x) THEN 0
    ELSE IF x.e >= 0 THEN BToInt(BShl(x.m, x.e))
    ELSE BToInt(BShr(x.m, 0 - x.e)) + (IF BHalfCmp(x.m, 0 - x.e) >= 0 THEN 1 ELSE 0)

\* the sign of hi - lo for hi.e >= lo.e, neither being 0
FCmpOrdered(hi, lo) == BCmp(BShl(hi.m, hi.e - lo.e), lo.m)
\* the sign of x - y
FCmp(x, y) ==
    IF FIsZero(x) THEN (IF FIsZero(y) THEN 0 ELSE 0 - 1)
    ELSE IF FIsZero(y) THEN 1
    ELSE (IF x.e >= y.e THEN 1 ELSE 0 - 1)
         * FCmpOrdered(IF x.e >= y.e THEN x ELSE y, IF x.e >= y.e THEN y ELSE x)
\* x >= n for an integer n
FGe(x, n) == FCmp(x, FFromInt(n)) >= 0

RECURSIVE FMaxOf(_, _, _)
\* Math.max(...s) of a non-empty sequence of doubles, from s[i] on
FMaxOf(s, i, best) ==
    IF i > Len(s) THEN best
    ELSE FMaxOf(s, i + 1, IF FCmp(s[i], best) > 0 THEN s[i] ELSE best)

\* n / d for integers n and d > 0: the double a decimal literal like 0.4
\* denotes (4 / 10), and confidence / 100
FRatio(n, d) == FDiv(FFromInt(n), FFromInt(d))

RECURSIVE MaxOf(_)
\* Math.max(0, ...s) of a sequence of non-negative integers
MaxOf(s) == IF s = <<>> THEN 0 ELSE Max2(Head(s), MaxOf(Tail(s)))

RECURSIVE SumOf(_)
SumOf(s) == IF s = <<>> THEN 0 ELSE Head(s) + SumOf(Tail(s))

\* Math.round(a / b) for integers a >= 0, b > 0 (the quotient of two small
\* integers is a tie only when it is exactly k + 1/2, which a double holds)
RoundDiv(a, b) == (2 * a + b) \div (2 * b)

RECURSIVE SelectIdx(_, _, _)
\* the elements s[i] whose index satisfies Keep, in order
SelectIdx(s, Keep(_), i) ==
    IF i > Len(s) THEN <<>>
    ELSE (IF Keep(i) THEN <<s[i]>> ELSE <<>>) \o SelectIdx(s, Keep, i + 1)

Includes(s, v) == \E i \in 1..Len(s) : s[i] = v

(***************************************************************************)
(* Data.                                                                   *)
(***************************************************************************)
\* an optional number: <<>> when absent, <<n>> when present
Absent == <<>>
Some(n) == <<n>>
\* v || d of JavaScript for an optional number: d when absent or 0
OrDefault(v, d) == IF v = Absent \/ v[1] = 0 THEN d ELSE v[1]

\* the severity banding used by every component
ThreatLevelOf(score) ==
    IF score >= 80 THEN "critical"
    ELSE IF score >= 60 THEN "high"
    ELSE IF score >= 40 THEN "medium"
    ELSE IF score >= 20 THEN "low"
    ELSE "none"

\* an AnalysisResult (explanation and latency left out)
Analysis(analyzer, score, attackType, threatLevel, confidence) ==
    [analyzer |-> analyzer, score |-> score, attackType |-> attackType,
     threatLevel |-> threatLevel, confidence |-> confidence]

DEFAULT_POLICY ==
    [flagThreshold |-> 40, blockThreshold |-> 70,
     enabledAnalyzers |-> <<"heuristic", "llm_intent">>,
     customPatterns |-> <<>>, blockedTopics |-> <<>>,
     maxInputLength |-> 10000, llmSkipLow |-> 15, llmSkipHigh |-> 90,
     alwaysRunLLM |-> FALSE, outputLLMEnabled |-> FALSE]

\* { ...base, ...over }: the fields of over win
Spread(base, over) ==
    [f \in DOMAIN base \cup DOMAIN over |->
        IF f \in DOMAIN over THEN over[f] ELSE base[f]]

\* an entry of analyzersUsed: `tag`, `llm:<provider>`, each with an optional
\* suffix "(skipped)", "(failed)" or "(fallback)"
Used(tag, provider, suffix) == [tag |-> tag, provider |-> provider, suffix |-> suffix]
\* a line of notes: its fixed text and the provider and score it quotes
Note(text, provider, score) == [text |-> text, provider |-> provider, score |-> score]

COUNCIL_FAILED_NOTE == "LLM council FAILED: all providers unavailable"
COUNCIL_FAILED_OUTPUT_NOTE ==
    "LLM council FAILED for output: all providers unavailable - relying on output validator only"

(***************************************************************************)
(* The local detectors.  A text is known by what the detectors read of it: *)
(* its length, the custom regexes and the topics it matches, and the       *)
(* heuristic signals (patterns of DETECTION_PATTERNS, then the structural  *)
(* checks) it triggers.                                                    *)
(***************************************************************************)
\* regex sources that new RegExp rejects
InvalidRegex == {"("}

\* the patterns that compile and match the input
MatchedPatterns(input, patterns) ==
    SelectIdx(patterns, LAMBDA i : patterns[i] \notin InvalidRegex
                                   /\ patterns[i] \in input.custom, 1)

\* the result of checkCustomPatterns for n matched patterns with that score
CustomResult(n, score) ==
    Analysis("custom_patterns", score,
             IF n > 0 THEN "prompt_injection" ELSE "none",
             IF score >= 80 THEN "critical" ELSE IF score >= 60 THEN "high"
             ELSE IF score >= 40 THEN "medium" ELSE "none",
             Absent)

\* score = matched.length > 0 ? Math.min(100, 50 + matched.length * 15) : 0
CustomScored(n) == CustomResult(n, IF n > 0 THEN Min2(100, 50 + n * 15) ELSE 0)

checkCustomPatterns(input, patterns) ==
    CustomScored(Len(MatchedPatterns(input, patterns)))

\* the topics the input mentions
MatchedTopics(input, topics) ==
    SelectIdx(topics, LAMBDA i : topics[i] \in input.topics, 1)

TopicResult(n, score) ==
    Analysis("blocked_topics", score,
             IF n > 0 THEN "prompt_injection" ELSE "none",
             IF score >= 80 THEN "critical" ELSE IF score >= 60 THEN "high"
             ELSE IF score >= 40 THEN "medium" ELSE "none",
             Absent)

\* score = matched.length > 0 ? Math.min(100, 60 + matched.length * 10) : 0
TopicScored(n) == TopicResult(n, IF n > 0 THEN Min2(100, 60 + n * 10) ELSE 0)

\* topics that the JSON body gave as numbers
NonStringTopics == {"5"}

\* topic.toLowerCase is not a function: the filter throws on a topic that is
\* no string
TopicsThrow(topics) == \E i \in 1..Len(topics) : topics[i] \in NonStringTopics

checkBlockedTopics(input, topics) ==
    TopicScored(Len(MatchedTopics(input, topics)))

RECURSIVE InsertDesc(_, _)
InsertDesc(v, s) ==
    IF s = <<>> THEN <<v>>
    ELSE IF v > Head(s) THEN <<v>> \o s
    ELSE <<Head(s)>> \o InsertDesc(v, Tail(s))
RECURSIVE SortDesc(_)
\* [...].sort((a, b) => b - a)
SortDesc(s) == IF s = <<>> THEN <<>> ELSE InsertDesc(Head(s), SortDesc(Tail(s)))

\* the doubles 0.1 .. 0.9 that the decimal literals of the source denote
Tenths == [t \in 1..9 |-> FRatio(t, 10)]

RECURSIVE AggregateFrom(_, _, _)
\* aggregateScore += allScores[i] * (0.3 / i), for i = 1 .. length - 1
AggregateFrom(allScores, i, acc) ==
    IF i + 1 > Len(allScores) THEN acc
    ELSE AggregateFrom(allScores, i + 1,
             FAdd(acc, FMul(FFromInt(allScores[i + 1]),
                            FDiv(Tenths[3], FFromInt(i)))))

\* the mean of the scores in place of the top score with its bonuses
AggregateMean(allScores) ==
    IF allScores = <<>> THEN 0
    ELSE Min2(100, RoundDiv(SumOf(allScores), Len(allScores)))

AggregateScore(allScores) ==
    IF allScores = <<>> THEN 0
    ELSE Min2(100, FRound(AggregateFrom(allScores, 1, FFromInt(allScores[1]))))

RECURSIVE FirstMaxIdx(_, _, _)
\* the first index of a greatest element of a non-empty sequence of integers
FirstMaxIdx(s, i, best) ==
    IF i > Len(s) THEN best
    ELSE FirstMaxIdx(s, i + 1, IF s[i] > s[best] THEN i ELSE best)

\* the pattern matches and the structural signals of a text
PatternMatches(input) ==
    SelectIdx(input.signals, LAMBDA i : ~input.signals[i].structural, 1)
StructuralSignals(input) ==
    SelectIdx(input.signals, LAMBDA i : input.signals[i].structural, 1)
ScoresOf(signals) == [i \in 1..Len(signals) |-> signals[i].score]

\* the result of analyzeWithHeuristics from its matches and its aggregate
HeuristicResult(matches, aggregate) ==
    Analysis("heuristic", aggregate,
             IF matches = <<>> THEN "none"
             ELSE matches[FirstMaxIdx(ScoresOf(matches), 1, 1)].attackType,
             ThreatLevelOf(aggregate), Absent)

analyzeWithHeuristics(input) ==
    HeuristicResult(PatternMatches(input),
        AggregateScore(SortDesc(ScoresOf(PatternMatches(input))
                                \o ScoresOf(StructuralSignals(input)))))

(***************************************************************************)
(* The LLM council.                                                        *)
(***************************************************************************)
NoAnalysis == [score |-> 0, attackType |-> "none", threatLevel |-> "none",
               confidence |-> Absent]
ProviderResult(provider, status, analysis, error) ==
    [provider |-> provider, status |-> status, analysis |-> analysis, error |-> error]

\* providers that callProvider calls without an API key
SkipKeyCheck == {"bedrock", "vercel"}
\* the keys of PROVIDER_FUNCTIONS
KnownProviders == {"anthropic", "openai", "google", "mistral", "bedrock", "vercel"}

\* callProvider up to its await: an unknown provider and a missing key are
\* errors at once, any other call is in flight
callProvider(cfg) ==
    IF cfg.name \notin KnownProviders
    THEN ProviderResult(cfg.name, "error", NoAnalysis, "Unknown provider")
    ELSE IF cfg.name \notin SkipKeyCheck /\ ~cfg.apiKey
    THEN ProviderResult(cfg.name, "error", NoAnalysis, "Missing API key")
    ELSE ProviderResult(cfg.name, "pending", NoAnalysis, "")

keyMap == [anthropic |-> "ANTHROPIC_API_KEY", openai |-> "OPENAI_API_KEY",
           google |-> "GOOGLE_API_KEY", bedrock |-> "AWS_ACCESS_KEY_ID",
           vercel |-> "OPENAI_API_KEY", mistral |-> "MISTRAL_API_KEY"]

\* parseInt(LLM_PROVIDERS_COUNT || String(all.length)), then slice(0, Math.max(1, count));
\* Math.max(1, NaN) is NaN and slice(0, NaN) is empty
getProviderConfigs(env) ==
    LET all    == IF env.LLM_PROVIDERS = <<>> THEN <<"anthropic">> ELSE env.LLM_PROVIDERS
        count  == IF env.LLM_PROVIDERS_COUNT = Absent THEN Len(all)
                  ELSE env.LLM_PROVIDERS_COUNT[1]
        n      == IF env.COUNT_IS_NAN THEN 0 ELSE Min2(Len(all), Max2(1, count))
    IN  [i \in 1..n |-> [name |-> all[i],
                          apiKey |-> all[i] \in DOMAIN keyMap
                                     /\ keyMap[all[i]] \in env.set]]

Successful(results) == SelectIdx(results, LAMBDA i : results[i].status = "success", 1)

VoteOf(s, blockThreshold, flagThreshold) ==
    IF s >= blockThreshold THEN "block"
    ELSE IF s >= flagThreshold THEN "flag"
    ELSE "allow"

Votes(successful, blockThreshold, flagThreshold) ==
    [b \in {"block", "flag", "allow"} |->
        Cardinality({i \in 1..Len(successful) :
            VoteOf(successful[i].analysis.score, blockThreshold, flagThreshold) = b})]

\* r.analysis.confidence || 50
ConfOf(r) == OrDefault(r.analysis.confidence, 50)

\* totalConfidence > 0 ? Math.round(weightedScoreSum / totalConfidence) : 0
AvgOf(weightedScoreSum, totalConfidence) ==
    IF totalConfidence > 0 THEN RoundDiv(weightedScoreSum, totalConfidence) ELSE 0

AvgScore(successful) ==
    AvgOf(SumOf([i \in 1..Len(successful) |->
                    successful[i].analysis.score * ConfOf(successful[i])]),
          SumOf([i \in 1..Len(successful) |-> ConfOf(successful[i])]))

\* the agreement rules without the floor of a split verdict
AdjustWithoutFloor(avgScore, votes, n, flagThreshold) ==
    IF votes.block = n THEN Max2(avgScore, Min2(100, avgScore + 10))
    ELSE avgScore

\* the agreement rules without the boost of a unanimous verdict
AdjustWithoutBoost(avgScore, votes, n, flagThreshold) ==
    IF votes.block # n /\ 2 * votes.block > n /\ votes.allow > 0
    THEN Max2(avgScore, flagThreshold)
    ELSE avgScore

AgreementAdjust(avgScore, votes, n, flagThreshold) ==
    IF votes.block = n THEN Max2(avgScore, Min2(100, avgScore + 10))
    ELSE IF 2 * votes.block > n /\ votes.allow > 0 THEN Max2(avgScore, flagThreshold)
    ELSE avgScore

\* the successful results that name an attack type
Named(successful) ==
    SelectIdx(successful, LAMBDA i : successful[i].analysis.attackType # "none", 1)
\* how many of the named results name the type that named[i] names
TimesNamed(named, i) ==
    Cardinality({j \in 1..Len(named) :
        named[j].analysis.attackType = named[i].analysis.attackType})
\* the attack type named most often, the last named winning a tie
TopOfLast(named) ==
    IF named = <<>> THEN "none"
    ELSE named[CHOOSE i \in 1..Len(named) :
                   /\ \A j \in 1..Len(named) : TimesNamed(named, j) <= TimesNamed(named, i)
                   /\ \A j \in (i + 1)..Len(named) :
                          TimesNamed(named, j) < TimesNamed(named, i)].analysis.attackType

\* the non-none attack type named most often, the first named winning a tie
TopOf(named) ==
    IF named = <<>> THEN "none"
    ELSE named[FirstMaxIdx([i \in 1..Len(named) |-> TimesNamed(named, i)],
                           1, 1)].analysis.attackType
TopAttack(successful) == TopOf(Named(successful))

\* the council's verdict of several successful results, finalScore being the
\* average after the agreement rules
Agreed(successful, finalScore) ==
    [score |-> Min2(100, Max2(0, finalScore)),
     attackType |-> TopAttack(successful),
     threatLevel |-> ThreatLevelOf(finalScore),
     confidence |-> Some(RoundDiv(
         SumOf([i \in 1..Len(successful) |-> ConfOf(successful[i])]),
         Len(successful)))]

\* councilDecision after its filter
DecisionOf(successful, blockThreshold, flagThreshold) ==
    IF Len(successful) = 0
    THEN [score |-> 0, attackType |-> "none", threatLevel |-> "none",
          confidence |-> Some(0)]
    ELSE IF Len(successful) = 1
    THEN [score |-> successful[1].analysis.score,
          attackType |-> successful[1].analysis.attackType,
          threatLevel |-> successful[1].analysis.threatLevel,
          confidence |-> successful[1].analysis.confidence]
    ELSE Agreed(successful,
             AgreementAdjust(AvgScore(successful),
                             Votes(successful, blockThreshold, flagThreshold),
                             Len(successful), flagThreshold))

councilDecision(results, blockThreshold, flagThreshold) ==
    DecisionOf(Successful(results), blockThreshold, flagThreshold)

Failed(results) == SelectIdx(results, LAMBDA i : results[i].status # "success", 1)
ProvidersOf(results) == [i \in 1..Len(results) |-> results[i].provider]

\* the notes written from activeProviders and then discardedProviders: the
\* successes first, the failures after them
CouncilOfGrouped(results, council) ==
    [result |-> Analysis("llm_council", council.score, council.attackType,
                         council.threatLevel, council.confidence),
     providerNotes |->
         [i \in 1..Len(Successful(results)) |->
             Note("analyzer used", Successful(results)[i].provider,
                  Successful(results)[i].analysis.score)]
         \o [i \in 1..Len(Failed(results)) |->
                Note("analyzer discarded", Failed(results)[i].provider, 0)],
     activeProviders |-> ProvidersOf(Successful(results)),
     discardedProviders |-> ProvidersOf(Failed(results))]

\* what analyzeWithLLMCouncil returns for the results and their verdict
CouncilOf(results, council) ==
    [result |-> Analysis("llm_council", council.score, council.attackType,
                         council.threatLevel, council.confidence),
     providerNotes |-> [i \in 1..Len(results) |->
         IF results[i].status = "success"
         THEN Note("analyzer used", results[i].provider, results[i].analysis.score)
         ELSE Note("analyzer discarded", results[i].provider, 0)],
     activeProviders |-> ProvidersOf(Successful(results)),
     discardedProviders |-> ProvidersOf(Failed(results))]

\* analyzeWithLLMCouncil from the moment Promise.all has resolved
CouncilResult(results, blockThreshold, flagThreshold) ==
    CouncilOf(results, councilDecision(results, blockThreshold, flagThreshold))

(***************************************************************************)
(* The score combiner.                                                     *)
(***************************************************************************)
\* the weight table of calculateCombinedScore
weights == [heuristic |-> Tenths[4], llm_intent |-> Tenths[6], llm_council |-> Tenths[6],
            custom_patterns |-> Tenths[5], blocked_topics |-> Tenths[7],
            output_validator |-> Tenths[5]]

\* confidence / 100, for the confidences 0 .. 100
Percent == [c \in 0..100 |-> FRatio(c, 100)]

\* weights[analysis.analyzer] || 0.5
WeightOf(analyzer) ==
    IF analyzer \in DOMAIN weights THEN weights[analyzer] ELSE Tenths[5]

\* weight * (confidence / 100), with confidence = metadata.confidence || 80
AdjustedWeight(analysis) ==
    FMul(WeightOf(analysis.analyzer), Percent[OrDefault(analysis.confidence, 80)])

\* analysis.score as a double: the output validator's score is one already
ScoreOf(analysis) ==
    IF analysis.analyzer = "output_validator" THEN analysis.score
    ELSE FFromInt(analysis.score)

RECURSIVE WeightedLoop(_, _, _, _)
\* one turn of the loop: weightedSum += score * adjustedWeight and
\* totalWeight += adjustedWeight
WeightedTurn(analyses, i, weightedSum, totalWeight, adjustedWeight) ==
    IF Len(adjustedWeight.m) >= 0
    THEN WeightedLoop(analyses, i + 1,
             FAdd(weightedSum, FMul(ScoreOf(analyses[i]), adjustedWeight)),
             FAdd(totalWeight, adjustedWeight))
    ELSE [weightedSum |-> FZero, totalWeight |-> FZero]
\* the loop over analyses, from analyses[i] on
WeightedLoop(analyses, i, weightedSum, totalWeight) ==
    IF i > Len(analyses) THEN [weightedSum |-> weightedSum, totalWeight |-> totalWeight]
    ELSE WeightedTurn(analyses, i, weightedSum, totalWeight, AdjustedWeight(analyses[i]))

\* x * 0.t for a tenth t
FTimesTenths(x, t) == FMul(x, Tenths[t])

\* Math.round(avgScore * 0.6 + maxScore * 0.4), avgScore being
\* weightedSum / totalWeight when totalWeight > 0
Blend(sums, maxScore) ==
    FRound(FAdd(FTimesTenths(IF ~FIsZero(sums.totalWeight)
                             THEN FDiv(sums.weightedSum, sums.totalWeight)
                             ELSE FZero, 6),
                FTimesTenths(maxScore, 4)))

\* Math.max(...analyses.map(a => a.score))
MaxScore(analyses) ==
    FMaxOf([i \in 1..Len(analyses) |-> ScoreOf(analyses[i])], 1, FZero)

\* a single analysis gives its score back as it is
calculateCombinedScore(analyses) ==
    IF Len(analyses) = 0 THEN 0
    ELSE IF Len(analyses) = 1 THEN analyses[1].score
    ELSE Blend(WeightedLoop(analyses, 1, FZero, FZero), MaxScore(analyses))

(***************************************************************************)
(* The output validator.  An output is known by the scores of its three    *)
(* checks (system prompt leak, PII exposure, compliance break).            *)
(***************************************************************************)
FBand(x, n, level, below) == IF FGe(x, n) THEN level ELSE below
FThreatLevelOf(x) ==
    FBand(x, 80, "critical", FBand(x, 60, "high",
        FBand(x, 40, "medium", FBand(x, 20, "low", "none"))))

\* Math.max(x, y) and Math.min(x, y)
FMax2(x, y) == IF FCmp(x, y) >= 0 THEN x ELSE y
FMin2(x, y) == IF FCmp(x, y) <= 0 THEN x ELSE y

OutputResult(output, finalScore) ==
    Analysis("output_validator", finalScore,
             IF output.complianceBreak > 50 THEN "jailbreak"
             ELSE IF output.promptLeak > 40 \/ output.pii > 40 THEN "data_exfiltration"
             ELSE "none",
             FThreatLevelOf(finalScore), Absent)

\* checkSystemPromptLeak: systemPrompt && systemPrompt.length > 40, then
\* systemPrompt.split, which an array of more than 40 elements has not
OutputThrows(output) ==
    "systemPrompt" \in DOMAIN output /\ output.systemPrompt = "long array"

\* finalScore = Math.min(100, Math.max(maxScore, sumScore * 0.6))
analyzeOutput(output) ==
    OutputResult(output,
        FMin2(FFromInt(100),
              FMax2(FFromInt(Max2(output.promptLeak, Max2(output.pii, output.complianceBreak))),
                    FTimesTenths(FFromInt(output.promptLeak + output.pii
                                          + output.complianceBreak), 6))))

(***************************************************************************)
(* The orchestrator.                                                       *)
(***************************************************************************)
\* the mapping that tests the flag threshold first
ActionFlagFirst(atLeastBlock, atLeastFlag) ==
    IF ~atLeastFlag THEN "allow" ELSE IF ~atLeastBlock THEN "flag" ELSE "block"

\* combinedScore >= blockThreshold ? 'block' : combinedScore >= flagThreshold ? 'flag' : 'allow'
ActionOf(atLeastBlock, atLeastFlag) ==
    IF atLeastBlock THEN "block" ELSE IF atLeastFlag THEN "flag" ELSE "allow"

\* the length check reading the default limit instead of the effective policy's
LengthExceededByDefault(input, policy) == input.length > DEFAULT_POLICY.maxInputLength

\* request.input.length > policy.maxInputLength
LengthExceeded(input, policy) == input.length > policy.maxInputLength

\* Math.max(0, ...analyses.map(a => a.score))
TopScore(analyses) == MaxOf([i \in 1..Len(analyses) |-> analyses[i].score])

\* the gray zone taken without its lower end
ShouldRunAboveLow(policy, topHeuristicScore) ==
    policy.alwaysRunLLM
    \/ (topHeuristicScore > policy.llmSkipLow /\ topHeuristicScore < policy.llmSkipHigh)

ShouldRunLLM(policy, topHeuristicScore) ==
    policy.alwaysRunLLM
    \/ (topHeuristicScore >= policy.llmSkipLow /\ topHeuristicScore < policy.llmSkipHigh)

\* the total-failure test missing the council of a single provider
CouncilFailedSeveral(council) ==
    Len(council.activeProviders) = 0 /\ Len(council.discardedProviders) > 1

CouncilTotallyFailed(council) ==
    Len(council.activeProviders) = 0 /\ Len(council.discardedProviders) > 0

\* a WAFDecision; its totalLatency is filled in when the call returns
Decision(action, overallScore, threatLevel, analyses, scanType, analyzersUsed, notes) ==
    [action |-> action, overallScore |-> overallScore, threatLevel |-> threatLevel,
     analyses |-> analyses, totalLatency |-> 0, scanType |-> scanType,
     analyzersUsed |-> analyzersUsed, notes |-> notes]

\* totalLatency: Date.now() - startTime
Timed(decision, latency) == [decision EXCEPT !.totalLatency = latency]

\* the decision of the length check
LengthDecision ==
    Decision("block", 100, "critical", <<>>, "input",
             <<Used("length_check", "", "")>>,
             <<Note("Input auto-blocked: length exceeded", "", 0)>>)

\* analyses.push(analysis), analyzersUsed.push(used), notes.push(note), when taken
Pushed(lists, taken, analysis, used, note) ==
    IF taken
    THEN [analyses |-> Append(lists.analyses, analysis),
          analyzersUsed |-> Append(lists.analyzersUsed, used),
          notes |-> Append(lists.notes, note)]
    ELSE lists

\* step 0 of analyzeInput
WithCustom(lists, policy, customResult) ==
    Pushed(lists, Len(policy.customPatterns) > 0 /\ customResult.score > 0,
           customResult, Used("custom_patterns", "", ""),
           Note("custom patterns used", "", 0))
\* step 0b
WithTopics(lists, policy, topicResult) ==
    Pushed(lists, Len(policy.blockedTopics) > 0 /\ topicResult.score > 0,
           topicResult, Used("blocked_topics", "", ""),
           Note("blocked topics matched", "", 0))
\* step 1
WithHeuristic(lists, policy, heuristicResult) ==
    Pushed(lists, Includes(policy.enabledAnalyzers, "heuristic"),
           heuristicResult, Used("heuristic", "", ""),
           Note("heuristic used", "", heuristicResult.score))

\* the three local steps with the heuristic taken first
LocalAnalysesHeuristicFirst(input, policy) ==
    WithTopics(
        WithCustom(
            WithHeuristic([analyses |-> <<>>, analyzersUsed |-> <<>>, notes |-> <<>>],
                          policy, analyzeWithHeuristics(input)),
            policy, checkCustomPatterns(input, policy.customPatterns)),
        policy, checkBlockedTopics(input, policy.blockedTopics))

\* steps 0, 0b and 1 of analyzeInput: what is pushed to analyses, analyzersUsed and notes
LocalAnalyses(input, policy) ==
    WithHeuristic(
        WithTopics(
            WithCustom([analyses |-> <<>>, analyzersUsed |-> <<>>, notes |-> <<>>],
                       policy, checkCustomPatterns(input, policy.customPatterns)),
            policy, checkBlockedTopics(input, policy.blockedTopics)),
        policy, analyzeWithHeuristics(input))

\* analyzersUsed entries llm:<p> and llm:<p>(failed)
ProviderTags(providers, suffix) ==
    [i \in 1..Len(providers) |-> Used("llm", providers[i], suffix)]

\* step 4 of analyzeInput
InputScored(policy, analyses, analyzersUsed, notes, combinedScore) ==
    Decision(ActionOf(combinedScore >= policy.blockThreshold,
                      combinedScore >= policy.flagThreshold),
             combinedScore, ThreatLevelOf(combinedScore), analyses, "input",
             analyzersUsed, notes)

\* steps 3 and 4 of analyzeInput
InputDecision(policy, analyses, analyzersUsed, notes) ==
    InputScored(policy, analyses, analyzersUsed, notes, calculateCombinedScore(analyses))

\* the decision of analyzeOutputSafety for a combined score
OutputScored(policy, analyses, analyzersUsed, notes, combinedScore) ==
    Decision(ActionOf(FGe(combinedScore, policy.blockThreshold),
                      FGe(combinedScore, policy.flagThreshold)),
             combinedScore, FThreatLevelOf(combinedScore), analyses, "output",
             analyzersUsed, notes)

\* analyses.length > 1 ? calculateCombinedScore(analyses) : result.score
OutputCombined(analyses, combinedScore) ==
    IF Len(analyses) > 1 THEN FFromInt(combinedScore) ELSE analyses[1].score

\* the combination and decision of analyzeOutputSafety; result is analyses[1]
OutputDecision(policy, analyses, analyzersUsed, notes) ==
    OutputScored(policy, analyses, analyzersUsed, notes,
                 OutputCombined(analyses, calculateCombinedScore(analyses)))

MAX_LOGS == 1000

\* the splice taken at the wrong end: the newest entries go
PushLogKeepOldest(logs, log) ==
    IF Len(logs) + 1 > MAX_LOGS
    THEN SubSeq(Append(logs, log), 1, MAX_LOGS)
    ELSE Append(logs, log)

\* logDecision without its splice
PushLogUnbounded(logs, log) == Append(logs, log)

\* securityLogs.push(log), then the splice that keeps the last MAX_LOGS
PushLog(logs, log) ==
    LET pushed == Append(logs, log)
    IN  IF Len(pushed) > MAX_LOGS
        THEN SubSeq(pushed, Len(pushed) - MAX_LOGS + 1, Len(pushed))
        ELSE pushed

\* a SecurityLog; logDecision fills in its id and its stored input
SecurityLog(decision) ==
    [id |-> 0, input |-> 0, decision |-> decision, scanType |-> decision.scanType,
     analyzersUsed |-> decision.analyzersUsed]

\* the entry storing the whole input
LoggedWhole(log, requestId, input) ==
    [log EXCEPT !.id = requestId, !.input = input.length]

\* id: decision.requestId, the uuid of the call, which is known here by the
\* call's place in calls; input: request.input.substring(0, 500), known by
\* its length
Logged(log, requestId, input) ==
    [log EXCEPT !.id = requestId, !.input = Min2(input.length, 500)]

(***************************************************************************)
(* The inputs of the model.                                                *)
(***************************************************************************)
MaxCalls == 1
MaxAdmin == 1
MaxProviders == 3

Text(length, custom, topics, signals, promptLeak, pii, complianceBreak) ==
    [length |-> length, custom |-> custom, topics |-> topics, signals |-> signals,
     promptLeak |-> promptLeak, pii |-> pii, complianceBreak |-> complianceBreak]
Signal(score, attackType, structural) ==
    [score |-> score, attackType |-> attackType, structural |-> structural]

\* request inputs: a greeting, a text with one weak structural signal, a
\* plain injection that also matches a custom pattern and a topic, a text
\* with several signals, and an oversized text
Inputs ==
    << Text(2, {}, {}, <<>>, 0, 0, 0),
       Text(4, {}, {}, <<Signal(15, "none", TRUE)>>, 0, 0, 0),
       Text(4, {"hack"}, {"weapons"},
            <<Signal(85, "prompt_injection", FALSE)>>, 0, 0, 0),
       Text(4, {}, {}, <<Signal(85, "prompt_injection", FALSE),
                         Signal(40, "none", TRUE)>>, 0, 0, 0),
       Text(10001, {}, {}, <<>>, 0, 0, 0) >>

\* agent outputs: a clean one, one with an e-mail address and a phone
\* number, one hinting at its system prompt beside an e-mail address, one
\* disclosing the prompt and an AWS key
Outputs ==
    << Text(4, {}, {}, <<>>, 0, 0, 0),
       Text(4, {}, {}, <<>>, 0, 50, 0),
       Text(4, {}, {}, <<>>, 35, 25, 0),
       Text(4, {}, {}, <<>>, 70, 92, 0) >>

NoPatch == [f \in {} |-> 0]
\* Partial<PolicyConfig> values, for the dashboard and for request.policy
Patches ==
    << [flagThreshold |-> 70, blockThreshold |-> 40],
       [enabledAnalyzers |-> <<"llm_intent">>, alwaysRunLLM |-> TRUE],
       [maxInputLength |-> 3],
       [customPatterns |-> <<"hack", "(">>, blockedTopics |-> <<"weapons">>,
        outputLLMEnabled |-> TRUE],
       [llmSkipLow |-> 0, llmSkipHigh |-> 85] >>
RequestPolicies == <<NoPatch>> \o Patches

\* process.env: the provider list, the count, and the variables that are set
Env(providers, count, nan, set) ==
    [LLM_PROVIDERS |-> providers, LLM_PROVIDERS_COUNT |-> count,
     COUNT_IS_NAN |-> nan, set |-> set]
Envs ==
    << Env(<<"anthropic", "openai", "google">>, Absent, FALSE,
           {"ANTHROPIC_API_KEY", "OPENAI_API_KEY", "GOOGLE_API_KEY"}),
       Env(<<"openai", "claude">>, Absent, FALSE, {}),
       Env(<<>>, Some(2), FALSE, {"ANTHROPIC_API_KEY"}),
       Env(<<"anthropic">>, Absent, TRUE, {"ANTHROPIC_API_KEY"}) >>

LLMAnalysis(score, attackType, threatLevel, confidence) ==
    [score |-> score, attackType |-> attackType, threatLevel |-> threatLevel,
     confidence |-> confidence]
\* the milliseconds a call may have taken
Latencies == {0, 12}

\* what a provider's model may answer
\* (JSON.parse checks neither the range of score nor that threatLevel is the
\* band of score)
Answers ==
    << LLMAnalysis(0, "none", "none", Some(80)),
       LLMAnalysis(70, "prompt_injection", "high", Absent),
       LLMAnalysis(45, "jailbreak", "high", Some(90)),
       LLMAnalysis(150, "jailbreak", "critical", Some(100)) >>

(***************************************************************************)
(* The state.                                                              *)
(***************************************************************************)
VARIABLES
    env,            \* process.env, read by getProviderConfigs
    globalPolicy,   \* the module's globalPolicy
    securityLogs,   \* the module's securityLogs
    calls,          \* the calls of analyzeInput and analyzeOutputSafety so far
    admin,          \* how many dashboard operations have run
    trial           \* a function tried on its own: its arguments and its result

vars == <<env, globalPolicy, securityLogs, calls, admin, trial>>

\* no function is tried on its own
NoTrial == [fn |-> "none"]

NoDecision == Decision("", 0, "", <<>>, "", <<>>, <<>>)
\* a call of analyzeInput or analyzeOutputSafety: where it is (pc), its
\* request, its locals, whether it has called analyzeWithLLMCouncil
\* (invoked), the providers' results and the decision it returned
Call(pc, scanType, input, requestPolicy, policy, analyses, analyzersUsed, notes, results, decision) ==
    [pc |-> pc, scanType |-> scanType, input |-> input,
     requestPolicy |-> requestPolicy, policy |-> policy, analyses |-> analyses,
     analyzersUsed |-> analyzersUsed, notes |-> notes, invoked |-> FALSE,
     results |-> results, decision |-> decision]

Init ==
    /\ \E e \in DOMAIN Envs : env = Envs[e]
    /\ globalPolicy = DEFAULT_POLICY
    /\ securityLogs = <<>>
    /\ calls = <<>>
    /\ admin = 0
    /\ trial = NoTrial

(***************************************************************************)
(* The dashboard operations.                                               *)
(***************************************************************************)
\* the merge that appends the patch's arrays to the stored ones
PatchedPolicyAppending(policy, patch) ==
    LET merged == Spread(policy, patch)
        Both(f) == IF f \in DOMAIN patch THEN policy[f] \o patch[f] ELSE policy[f]
    IN  [merged EXCEPT !.enabledAnalyzers = Both("enabledAnalyzers"),
                       !.customPatterns = Both("customPatterns"),
                       !.blockedTopics = Both("blockedTopics")]

\* { ...globalPolicy, ...patch }, the three arrays being patch.x ?? globalPolicy.x
PatchedPolicy(policy, patch) ==
    LET merged == Spread(policy, patch)
        Either(f) == IF f \in DOMAIN patch THEN patch[f] ELSE policy[f]
    IN  [merged EXCEPT !.enabledAnalyzers = Either("enabledAnalyzers"),
                       !.customPatterns = Either("customPatterns"),
                       !.blockedTopics = Either("blockedTopics")]

updateGlobalPolicy(patch) ==
    /\ admin < MaxAdmin
    /\ globalPolicy' = PatchedPolicy(globalPolicy, patch)
    /\ admin' = admin + 1
    /\ UNCHANGED <<env, securityLogs, calls, trial>>

resetGlobalPolicy ==
    /\ admin < MaxAdmin
    /\ globalPolicy' = DEFAULT_POLICY
    /\ admin' = admin + 1
    /\ UNCHANGED <<env, securityLogs, calls, trial>>

clearLogs ==
    /\ admin < MaxAdmin
    /\ securityLogs' = <<>>
    /\ admin' = admin + 1
    /\ UNCHANGED <<env, globalPolicy, calls, trial>>

(***************************************************************************)
(* analyzeInput and analyzeOutputSafety.  A call runs to its await of the  *)
(* council (or to its return, when there is none); the providers settle    *)
(* one by one; the call resumes when Promise.all has resolved.             *)
(***************************************************************************)
\* configs.map(cfg => callProvider(cfg, ...)), each call up to its await
StartCouncil == [i \in 1..Len(getProviderConfigs(env)) |->
                    callProvider(getProviderConfigs(env)[i])]

\* the decision returned with a score that grows with the decisions logged
\* before
ReturnedEscalating(call, decision) ==
    [call EXCEPT !.pc = "returned", !.analyses = decision.analyses,
                 !.analyzersUsed = decision.analyzersUsed, !.notes = decision.notes,
                 !.decision = [decision EXCEPT !.overallScore = @ + Len(securityLogs)]]

Returned(call, decision) ==
    [call EXCEPT !.pc = "returned", !.analyses = decision.analyses,
                 !.analyzersUsed = decision.analyzersUsed, !.notes = decision.notes,
                 !.decision = decision]

\* logDecision(decision, request); return decision
Return(call, decision) ==
    \E latency \in Latencies :
        /\ calls' = Append(calls, Returned(call, Timed(decision, latency)))
        /\ securityLogs' = PushLog(securityLogs,
               Logged(SecurityLog(Timed(decision, latency)), Len(calls) + 1, call.input))

\* the call awaits the council
Await(call, lists) ==
    /\ calls' = Append(calls,
           [call EXCEPT !.pc = "council", !.analyses = lists.analyses,
                        !.analyzersUsed = lists.analyzersUsed,
                        !.notes = lists.notes, !.invoked = TRUE,
                        !.results = StartCouncil])
    /\ UNCHANGED securityLogs

\* step 2 of analyzeInput, up to the call of the council
InputGate(call, lists, topHeuristicScore) ==
    IF ~Includes(call.policy.enabledAnalyzers, "llm_intent")
    THEN Return(call, InputDecision(call.policy, lists.analyses, lists.analyzersUsed,
                                    lists.notes))
    ELSE IF ~ShouldRunLLM(call.policy, topHeuristicScore)
    THEN Return(call, InputDecision(call.policy, lists.analyses,
                    Append(lists.analyzersUsed, Used("llm_council", "", "(skipped)")),
                    Append(lists.notes,
                           Note("LLM council skipped", "", topHeuristicScore))))
    ELSE Await(call, lists)

InputLocal(call, lists) == InputGate(call, lists, TopScore(lists.analyses))

\* a detector throws and a catch answers as if nothing had been found
ThrowAllowed(call) ==
    Return(call, Decision("allow", 0, "none", <<>>, call.scanType, <<>>, <<>>))

\* a detector throws: the exception leaves the call, which returns no
\* decision and logs nothing
Throw(call) ==
    /\ calls' = Append(calls, [call EXCEPT !.pc = "threw", !.analyses = <<>>,
                                           !.analyzersUsed = <<>>, !.notes = <<>>])
    /\ UNCHANGED securityLogs

InputBegin(call) ==
    IF LengthExceeded(call.input, call.policy)
    THEN Return(call, LengthDecision)
    ELSE IF TopicsThrow(call.policy.blockedTopics)
    THEN Throw(call)
    ELSE InputLocal(call, LocalAnalyses(call.input, call.policy))

\* analyzeInput storing the merged policy as the process-wide one
analyzeInputStartStoring(input, requestPolicy) ==
    /\ InputBegin(Call("start", "input", input, requestPolicy,
                       Spread(globalPolicy, requestPolicy), <<>>, <<>>, <<>>, <<>>,
                       NoDecision))
    /\ globalPolicy' = Spread(globalPolicy, requestPolicy)
    /\ UNCHANGED <<env, admin, trial>>

\* analyzeInput up to its first await or to its return
analyzeInputStart(input, requestPolicy) ==
    /\ InputBegin(Call("start", "input", input, requestPolicy,
                       Spread(globalPolicy, requestPolicy), <<>>, <<>>, <<>>, <<>>,
                       NoDecision))
    /\ UNCHANGED <<env, globalPolicy, admin, trial>>

\* a provider call in flight ends: fn resolves with an analysis, or throws
providerSettles(c, i, ok, analysis) ==
    /\ calls[c].pc = "council"
    /\ calls[c].results[i].status = "pending"
    /\ calls' = [calls EXCEPT ![c].results[i] =
                    IF ok THEN ProviderResult(@.provider, "success", analysis, "")
                    ELSE ProviderResult(@.provider, "error", NoAnalysis, "request failed")]
    /\ UNCHANGED <<env, globalPolicy, securityLogs, admin, trial>>

\* Promise.race in place of Promise.all: the first settled call resolves it
FirstSettled(results) == \E i \in 1..Len(results) : results[i].status # "pending"

\* Promise.all has resolved
AllSettled(results) == \A i \in 1..Len(results) : results[i].status # "pending"

\* the lists after a council that failed altogether; fallback tells whether
\* the heuristic had not run
InputFailed(call, council, fallback, fallbackResult) ==
    InputDecision(call.policy,
        call.analyses \o (IF fallback THEN <<fallbackResult>> ELSE <<>>),
        call.analyzersUsed \o <<Used("llm_council", "", "(failed)")>>
            \o ProviderTags(council.discardedProviders, "(failed)")
            \o (IF fallback THEN <<Used("heuristic", "", "(fallback)")>> ELSE <<>>),
        call.notes \o council.providerNotes
            \o <<Note(COUNCIL_FAILED_NOTE, "", 0)>>
            \o (IF fallback
                THEN <<Note("heuristic used as FALLBACK", "", fallbackResult.score)>>
                ELSE <<>>))

\* the tags of a council that answered, the discarded providers left out
CouncilTagsActive(council) ==
    <<Used("llm_council", "", "")>> \o ProviderTags(council.activeProviders, "")

\* the analyzersUsed and notes of a council that answered
CouncilTags(council) ==
    <<Used("llm_council", "", "")>>
        \o ProviderTags(council.activeProviders, "")
        \o ProviderTags(council.discardedProviders, "(failed)")

\* the failure branch without its forced heuristic
InputCouncilNoFallback(call, council) ==
    IF CouncilTotallyFailed(council)
    THEN InputFailed(call, council, FALSE, analyzeWithHeuristics(call.input))
    ELSE InputDecision(call.policy, Append(call.analyses, council.result),
                       call.analyzersUsed \o CouncilTags(council),
                       call.notes \o council.providerNotes)

InputCouncil(call, council) ==
    IF CouncilTotallyFailed(council)
    THEN InputFailed(call, council,
                     ~Includes(call.policy.enabledAnalyzers, "heuristic"),
                     analyzeWithHeuristics(call.input))
    ELSE InputDecision(call.policy, Append(call.analyses, council.result),
                       call.analyzersUsed \o CouncilTags(council),
                       call.notes \o council.providerNotes)

\* the call reading the process-wide policy again after the await: the
\* council has voted under the thresholds of the start, the action is mapped
\* under those of the return
InputAfterCouncilRereading(call) ==
    InputCouncil([call EXCEPT !.policy = Spread(globalPolicy, call.requestPolicy)],
                 CouncilResult(call.results, call.policy.blockThreshold,
                               call.policy.flagThreshold))

\* analyzeInput from the council's answer to the return
InputAfterCouncil(call) ==
    InputCouncil(call, CouncilResult(call.results, call.policy.blockThreshold,
                                     call.policy.flagThreshold))

\* logDecision(decision, request); return decision, for a call that awaited
Resume(c, decision) ==
    \E latency \in Latencies :
        /\ calls' = [calls EXCEPT ![c] = Returned(@, Timed(decision, latency))]
        /\ securityLogs' = PushLog(securityLogs,
               Logged(SecurityLog(Timed(decision, latency)), c, calls[c].input))

analyzeInputResume(c) ==
    /\ calls[c].pc = "council"
    /\ calls[c].scanType = "input"
    /\ AllSettled(calls[c].results)
    /\ Resume(c, InputAfterCouncil(calls[c]))
    /\ UNCHANGED <<env, globalPolicy, admin, trial>>

OutputBegin(call) ==
    IF OutputThrows(call.input)
    THEN Throw(call)
    ELSE IF call.policy.outputLLMEnabled /\ Includes(call.policy.enabledAnalyzers, "llm_intent")
    THEN Await(call, call)
    ELSE Return(call, OutputDecision(call.policy, call.analyses, call.analyzersUsed,
                                     call.notes))

\* analyzeOutputSafety up to its await or to its return
analyzeOutputStart(output) ==
    /\ OutputBegin(Call("start", "output", output, NoPatch, globalPolicy,
                        <<analyzeOutput(output)>>,
                        <<Used("output_validator", "", "")>>,
                        <<Note("output validator used", "", 0)>>, <<>>, NoDecision))
    /\ UNCHANGED <<env, globalPolicy, admin, trial>>

\* the failure branch of analyzeOutputSafety falling back on the heuristic as
\* analyzeInput does
OutputCouncilFallback(call, council) ==
    IF CouncilTotallyFailed(council)
    THEN OutputDecision(call.policy,
             Append(call.analyses, analyzeWithHeuristics(call.input)),
             call.analyzersUsed \o <<Used("llm_council", "", "(failed)")>>
                 \o ProviderTags(council.discardedProviders, "(failed)")
                 \o <<Used("heuristic", "", "(fallback)")>>,
             call.notes \o council.providerNotes
                 \o <<Note(COUNCIL_FAILED_OUTPUT_NOTE, "", 0)>>)
    ELSE OutputDecision(call.policy, Append(call.analyses, council.result),
                        call.analyzersUsed \o CouncilTags(council),
                        call.notes \o council.providerNotes)

OutputCouncil(call, council) ==
    IF CouncilTotallyFailed(council)
    THEN OutputDecision(call.policy, call.analyses,
             call.analyzersUsed \o <<Used("llm_council", "", "(failed)")>>
                 \o ProviderTags(council.discardedProviders, "(failed)"),
             call.notes \o council.providerNotes
                 \o <<Note(COUNCIL_FAILED_OUTPUT_NOTE, "", 0)>>)
    ELSE OutputDecision(call.policy, Append(call.analyses, council.result),
                        call.analyzersUsed \o CouncilTags(council),
                        call.notes \o council.providerNotes)

\* analyzeOutputSafety from the council's answer to the return
OutputAfterCouncil(call) ==
    OutputCouncil(call, CouncilResult(call.results, call.policy.blockThreshold,
                                      call.policy.flagThreshold))

analyzeOutputResume(c) ==
    /\ calls[c].pc = "council"
    /\ calls[c].scanType = "output"
    /\ AllSettled(calls[c].results)
    /\ Resume(c, OutputAfterCouncil(calls[c]))
    /\ UNCHANGED <<env, globalPolicy, admin, trial>>

Next ==
    \/ \E p \in DOMAIN Patches : updateGlobalPolicy(Patches[p])
    \/ resetGlobalPolicy
    \/ clearLogs
    \/ \E t \in DOMAIN Inputs, p \in DOMAIN RequestPolicies :
           Len(calls) < MaxCalls /\ analyzeInputStart(Inputs[t], RequestPolicies[p])
    \/ \E t \in DOMAIN Outputs :
           Len(calls) < MaxCalls /\ analyzeOutputStart(Outputs[t])
    \/ \E c \in DOMAIN calls, i \in 1..MaxProviders :
           /\ i <= Len(calls[c].results)
           /\ \/ \E a \in DOMAIN Answers : providerSettles(c, i, TRUE, Answers[a])
              \/ providerSettles(c, i, FALSE, NoAnalysis)
    \/ \E c \in DOMAIN calls : analyzeInputResume(c)
    \/ \E c \in DOMAIN calls : analyzeOutputResume(c)

Spec == Init /\ [][Next]_vars
(***************************************************************************)
(* councilDecision on its own: the results of up to MaxProviders providers *)
(* and the two thresholds are drawn, then the council decides.             *)
(***************************************************************************)
ProviderNames == <<"anthropic", "openai", "google", "mistral">>
TrialScores == {0, 39, 40, 69, 70, 100}
TrialConfidences == {Absent, Some(1), Some(100)}
\* how a provider's call may have ended
Outcomes ==
    {[status |-> "success", analysis |-> LLMAnalysis(s, "prompt_injection", "high", c)] :
        s \in TrialScores, c \in TrialConfidences}
    \cup {[status |-> "error", analysis |-> NoAnalysis]}
Thresholds == {[flagThreshold |-> 40, blockThreshold |-> 70],
               [flagThreshold |-> 70, blockThreshold |-> 40]}

ResultsOf(outcomes) ==
    [i \in 1..Len(outcomes) |->
        ProviderResult(ProviderNames[i], outcomes[i].status, outcomes[i].analysis, "")]

InitCouncil ==
    /\ env = Envs[1]
    /\ globalPolicy = DEFAULT_POLICY
    /\ securityLogs = <<>>
    /\ calls = <<>>
    /\ admin = 0
    /\ \E n \in 0..MaxProviders : \E outcomes \in [1..n -> Outcomes] :
       \E t \in Thresholds :
           trial = [fn |-> "councilDecision", results |-> ResultsOf(outcomes),
                    blockThreshold |-> t.blockThreshold,
                    flagThreshold |-> t.flagThreshold, out |-> <<>>]

\* the council decides
decide ==
    /\ trial.fn = "councilDecision"
    /\ trial.out = <<>>
    /\ trial' = [trial EXCEPT !.out = <<councilDecision(trial.results,
                                  trial.blockThreshold, trial.flagThreshold)>>]
    /\ UNCHANGED <<env, globalPolicy, securityLogs, calls, admin>>

NextCouncil == decide

SpecCouncil == InitCouncil /\ [][NextCouncil]_vars

(***************************************************************************)
(* calculateCombinedScore on its own: a list of analyses and one of its    *)
(* permutations are drawn, then both are combined.                         *)
(***************************************************************************)
MaxAnalyses == 3
\* results as the analyzers of analyzeInput produce them
TrialAnalyses ==
    {Analysis("custom_patterns", 65, "prompt_injection", "high", Absent),
     Analysis("blocked_topics", 70, "prompt_injection", "high", Absent),
     Analysis("heuristic", 5, "none", "none", Absent),
     Analysis("heuristic", 50, "jailbreak", "medium", Absent),
     Analysis("llm_council", 86, "prompt_injection", "critical", Some(88)),
     Analysis("llm_council", 0, "none", "none", Absent)}

Shuffles(n) == {p \in [1..n -> 1..n] : \A i \in 1..n : \E j \in 1..n : p[j] = i}

InitCombine ==
    /\ env = Envs[1]
    /\ globalPolicy = DEFAULT_POLICY
    /\ securityLogs = <<>>
    /\ calls = <<>>
    /\ admin = 0
    /\ \E n \in 0..MaxAnalyses : \E analyses \in [1..n -> TrialAnalyses] :
       \E p \in Shuffles(n) :
           trial = [fn |-> "calculateCombinedScore", analyses |-> analyses,
                    shuffled |-> [i \in 1..n |-> analyses[p[i]]], out |-> <<>>]

\* both lists are combined
combine ==
    /\ trial.fn = "calculateCombinedScore"
    /\ trial.out = <<>>
    /\ trial' = [trial EXCEPT !.out = <<calculateCombinedScore(trial.analyses),
                                        calculateCombinedScore(trial.shuffled)>>]
    /\ UNCHANGED <<env, globalPolicy, securityLogs, calls, admin>>

NextCombine == combine

SpecCombine == InitCombine /\ [][NextCombine]_vars

(***************************************************************************)
(* The claims about analyzeInput and analyzeOutputSafety.                  *)
(***************************************************************************)
\* the calls of analyzeInput that have returned
ReturnedInputs ==
    {c \in DOMAIN calls : calls[c].scanType = "input" /\ calls[c].pc = "returned"}

\* the decision is the one of the length check
IsLengthBlock(decision) ==
    /\ decision.action = "block"
    /\ decision.overallScore = 100
    /\ decision.threatLevel = "critical"
    /\ decision.analyses = <<>>
    /\ decision.analyzersUsed = <<Used("length_check", "", "")>>

\* C1: whatever the effective policy, a call of analyzeInput whose input is
\* longer than the policy's maxInputLength returns at once, and returns
\* action block, score 100, threat level critical, no analyses, and
\* analyzersUsed = [length_check]
LengthCheckBlocks ==
    \A c \in DOMAIN calls :
        (calls[c].scanType = "input"
         /\ calls[c].input.length > calls[c].policy.maxInputLength)
        => (calls[c].pc = "returned" /\ IsLengthBlock(calls[c].decision))

\* an input of length maxInputLength + 1 was blocked under a policy whose
\* maxInputLength a patch has changed
LengthCheckBlocksWitness ==
    \E c \in ReturnedInputs :
        /\ calls[c].input.length = calls[c].policy.maxInputLength + 1
        /\ calls[c].policy.maxInputLength # DEFAULT_POLICY.maxInputLength
        /\ IsLengthBlock(calls[c].decision)

\* the council was called and every provider it tried has failed
AllProvidersFailed(call) ==
    /\ call.invoked
    /\ Len(call.results) > 0
    /\ \A i \in 1..Len(call.results) : call.results[i].status = "error"

HeuristicResults(analyses) ==
    {i \in 1..Len(analyses) : analyses[i].analyzer = "heuristic"}

\* C2: a decision of analyzeInput made after the council was called and all
\* its providers failed holds exactly one heuristic result, whether the
\* policy enables the heuristic or not
FailedCouncilKeepsHeuristic ==
    \A c \in ReturnedInputs :
        AllProvidersFailed(calls[c])
        => Cardinality(HeuristicResults(calls[c].decision.analyses)) = 1

\* the heuristic was enabled, a provider call that was in flight failed, and
\* the decision holds the heuristic's result
FailedCouncilKeepsHeuristicWitness ==
    \E c \in ReturnedInputs :
        /\ AllProvidersFailed(calls[c])
        /\ Includes(calls[c].policy.enabledAnalyzers, "heuristic")
        /\ \E i \in 1..Len(calls[c].results) :
               calls[c].results[i].error = "request failed"
        /\ Cardinality(HeuristicResults(calls[c].decision.analyses)) = 1

\* the heuristic is disabled and every provider of the council has failed
FailedWithoutHeuristic(call) ==
    /\ call.scanType = "input"
    /\ AllProvidersFailed(call)
    /\ ~Includes(call.policy.enabledAnalyzers, "heuristic")

\* C3: when the heuristic is disabled and every provider of the council
\* fails, analyzeInput still returns a decision: the call that awaits the
\* settled council resumes into a decision with an action, and what it has
\* returned holds the heuristic's result, the entries llm_council(failed)
\* and heuristic(fallback) in analyzersUsed, and the council-failure warning
\* in notes
FallbackOnTotalFailure ==
    \A c \in DOMAIN calls :
        FailedWithoutHeuristic(calls[c])
        => IF calls[c].pc = "returned"
           THEN /\ HeuristicResults(calls[c].decision.analyses) # {}
                /\ Includes(calls[c].decision.analyzersUsed,
                            Used("llm_council", "", "(failed)"))
                /\ Includes(calls[c].decision.analyzersUsed,
                            Used("heuristic", "", "(fallback)"))
                /\ Includes(calls[c].decision.notes, Note(COUNCIL_FAILED_NOTE, "", 0))
           ELSE /\ calls[c].pc = "council"
                /\ AllSettled(calls[c].results)
                /\ InputAfterCouncil(calls[c]).action \in {"allow", "flag", "block"}

\* two providers, neither with a key, and the heuristic disabled: the call
\* returned with the fallback
FallbackOnTotalFailureWitness ==
    \E c \in ReturnedInputs :
        /\ FailedWithoutHeuristic(calls[c])
        /\ Len(calls[c].results) = 2
        /\ Includes(calls[c].decision.analyzersUsed, Used("heuristic", "", "(fallback)"))

\* the calls that have returned a decision made from a combined score
ReturnedScored ==
    {c \in DOMAIN calls :
        /\ calls[c].pc = "returned"
        /\ ~(calls[c].scanType = "input"
             /\ calls[c].input.length > calls[c].policy.maxInputLength)}

\* the call's overall score is at least n (the score of an output decision
\* is a double)
ScoreAtLeast(call, n) ==
    IF call.scanType = "output" THEN FGe(call.decision.overallScore, n)
    ELSE call.decision.overallScore >= n

Buckets(results, blockThreshold, flagThreshold) ==
    [block |-> Cardinality({i \in 1..Len(results) :
                   /\ results[i].status = "success"
                   /\ results[i].analysis.score >= blockThreshold}),
     flag  |-> Cardinality({i \in 1..Len(results) :
                   /\ results[i].status = "success"
                   /\ results[i].analysis.score < blockThreshold
                   /\ results[i].analysis.score >= flagThreshold}),
     allow |-> Cardinality({i \in 1..Len(results) :
                   /\ results[i].status = "success"
                   /\ results[i].analysis.score < blockThreshold
                   /\ results[i].analysis.score < flagThreshold}),
     all   |-> Cardinality({i \in 1..Len(results) : results[i].status = "success"})]

\* two or more providers succeeded, a strict majority of them in the block
\* bucket and at least one in the allow bucket
SplitMajority(buckets) ==
    /\ buckets.all >= 2
    /\ 2 * buckets.block > buckets.all
    /\ buckets.allow >= 1

\* C5: when the council ran and its successful providers split, a strict
\* majority in the block bucket and at least one in the allow bucket, the
\* decision of analyzeInput is never allow, whatever the other analyses scored
SplitVerdictNeverAllows ==
    \A c \in ReturnedInputs :
        (calls[c].invoked
         /\ SplitMajority(Buckets(calls[c].results, calls[c].policy.blockThreshold,
                                  calls[c].policy.flagThreshold)))
        => calls[c].decision.action # "allow"

\* the calls of analyzeInput that passed the length check with the council
\* enabled
Gated ==
    {c \in DOMAIN calls :
        /\ calls[c].scanType = "input"
        /\ calls[c].input.length <= calls[c].policy.maxInputLength
        /\ Includes(calls[c].policy.enabledAnalyzers, "llm_intent")}

\* the greatest score among the results of the custom patterns, the blocked
\* topics and the heuristic that the call has pushed, 0 when there is none
TopLocal(call) == TopScore(LocalAnalyses(call.input, call.policy).analyses)

InGrayZone(call) ==
    \/ call.policy.alwaysRunLLM
    \/ (call.policy.llmSkipLow <= TopLocal(call)
        /\ TopLocal(call) < call.policy.llmSkipHigh)

\* C9: with the council enabled and the input within maxInputLength,
\* analyzeInput calls the council exactly when alwaysRunLLM is set or
\* llmSkipLow <= top < llmSkipHigh, top being the greatest local score; a
\* call that does not call it calls no provider and returns with
\* llm_council(skipped) in analyzersUsed and a note of the skip
CouncilGate ==
    \A c \in Gated :
        /\ calls[c].invoked <=> InGrayZone(calls[c])
        /\ ~calls[c].invoked =>
              /\ calls[c].results = <<>>
              /\ calls[c].pc = "returned"
              /\ Includes(calls[c].decision.analyzersUsed,
                          Used("llm_council", "", "(skipped)"))
              /\ Includes(calls[c].decision.notes,
                          Note("LLM council skipped", "", TopLocal(calls[c])))

\* the greatest local score equalled llmSkipHigh and the council was skipped
CouncilGateWitness ==
    \E c \in Gated :
        /\ ~calls[c].policy.alwaysRunLLM
        /\ TopLocal(calls[c]) = calls[c].policy.llmSkipHigh
        /\ ~calls[c].invoked
        /\ Includes(calls[c].decision.analyzersUsed,
                    Used("llm_council", "", "(skipped)"))

(***************************************************************************)
(* The claims about councilDecision.                                       *)
(***************************************************************************)
\* the council has decided
Decided == trial.fn = "councilDecision" /\ trial.out # <<>>

TrialBuckets == Buckets(trial.results, trial.blockThreshold, trial.flagThreshold)

\* r.analysis.confidence || 50 of the results, 0 for a failed one
TrialConf(i) ==
    IF trial.results[i].status # "success" THEN 0
    ELSE IF trial.results[i].analysis.confidence \in {Absent, Some(0)} THEN 50
    ELSE trial.results[i].analysis.confidence[1]
TrialScore(i) == trial.results[i].analysis.score

\* C6: of two or more successful results, a strict majority in the block
\* bucket and at least one in the allow bucket, the council's score is at
\* least flagThreshold
SplitMajorityFloored ==
    (Decided /\ SplitMajority(TrialBuckets))
    => trial.out[1].score >= trial.flagThreshold

\* a split with a block majority whose confidence-weighted average lies
\* below flagThreshold, raised to it
SplitMajorityFlooredWitness ==
    /\ Decided
    /\ SplitMajority(TrialBuckets)
    /\ SumOf([i \in 1..Len(trial.results) |-> TrialScore(i) * TrialConf(i)])
           < (trial.flagThreshold - 1)
               * SumOf([i \in 1..Len(trial.results) |-> TrialConf(i)])
    /\ trial.out[1].score = trial.flagThreshold

\* three providers succeeded, each scoring at least blockThreshold
ThreeBlock ==
    /\ Len(trial.results) = 3
    /\ TrialBuckets.block = 3

AnySplitFloored ==
    (Decided /\ TrialBuckets.all >= 2 /\ TrialBuckets.block >= 1
             /\ TrialBuckets.allow >= 1)
    => trial.out[1].score >= trial.flagThreshold

(***************************************************************************)
(* The claim about calculateCombinedScore.                                 *)
(***************************************************************************)
\* C10: the combined score of a list of analyses and the combined score of
\* any permutation of the list are equal
OrderIndependent ==
    (trial.fn = "calculateCombinedScore" /\ trial.out # <<>>)
    => trial.out[1] = trial.out[2]

(***************************************************************************)
(* The claims about the scores and threat levels of a decision.            *)
(***************************************************************************)
\* the calls that have returned
ReturnedCalls == {c \in DOMAIN calls : calls[c].pc = "returned"}

\* a score is an integer of 0..100: analyzeInput's scores are integers of
\* the model, analyzeOutputSafety's are doubles
IsWholeScore(scanType, score) ==
    IF scanType = "output"
    THEN /\ FCmp(score, FFromInt(FRound(score))) = 0
         /\ FCmp(score, FFromInt(100)) <= 0
    ELSE score \in 0..100

\* C11: the overallScore of every decision that analyzeInput or
\* analyzeOutputSafety returns is an integer in 0..100, whatever the
\* providers report and the local detectors compute
OverallScoreWhole ==
    \A c \in ReturnedCalls :
        IsWholeScore(calls[c].scanType, calls[c].decision.overallScore)

\* the fixed banding of a score: >= 80 critical, >= 60 high, >= 40 medium,
\* >= 20 low, else none (the score being a double where the code holds one)
BandOf(isDouble, score) ==
    IF isDouble
    THEN (IF FCmp(score, FFromInt(80)) >= 0 THEN "critical"
          ELSE IF FCmp(score, FFromInt(60)) >= 0 THEN "high"
          ELSE IF FCmp(score, FFromInt(40)) >= 0 THEN "medium"
          ELSE IF FCmp(score, FFromInt(20)) >= 0 THEN "low"
          ELSE "none")
    ELSE (IF score >= 80 THEN "critical"
          ELSE IF score >= 60 THEN "high"
          ELSE IF score >= 40 THEN "medium"
          ELSE IF score >= 20 THEN "low"
          ELSE "none")

\* C12: in every decision returned, the decision's threatLevel is the band
\* of its overallScore and the threatLevel of each of its analyses is the
\* band of that analysis's score, the council's result of a single
\* successful provider included
ThreatLevelsBanded ==
    \A c \in ReturnedCalls :
        /\ calls[c].decision.threatLevel
               = BandOf(calls[c].scanType = "output", calls[c].decision.overallScore)
        /\ \A i \in 1..Len(calls[c].decision.analyses) :
               calls[c].decision.analyses[i].threatLevel
                   = BandOf(calls[c].decision.analyses[i].analyzer = "output_validator",
                            calls[c].decision.analyses[i].score)

(***************************************************************************)
(* The decision log at its capacity: the log holds the entries of earlier  *)
(* calls, and concurrent calls of analyzeInput and analyzeOutputSafety and *)
(* clearLogs work on it.                                                   *)
(***************************************************************************)
MaxLogCalls == 2
\* how many entries the earlier calls have left
LogSizes == {0, MAX_LOGS - 1, MAX_LOGS}

\* the log after n calls of analyzeInput that the length check blocked, the
\* oldest first; their ids are those of calls that are over
FilledLog(n) ==
    [i \in 1..n |-> Logged(SecurityLog(Timed(LengthDecision, 0)), i - n - 1, Inputs[5])]

\* one provider is configured; the dashboard may have enabled the council
\* for outputs
InitLog ==
    /\ env = Envs[3]
    /\ globalPolicy \in {DEFAULT_POLICY, PatchedPolicy(DEFAULT_POLICY, Patches[4])}
    /\ \E n \in LogSizes : securityLogs = FilledLog(n)
    /\ calls = <<>>
    /\ admin = 0
    /\ trial = NoTrial

\* a text in the gray zone, which awaits the council, and an oversized one
NextLog ==
    \/ clearLogs
    \/ \E t \in {2, 5} :
           Len(calls) < MaxLogCalls /\ analyzeInputStart(Inputs[t], NoPatch)
    \/ Len(calls) < MaxLogCalls /\ analyzeOutputStart(Outputs[2])
    \/ \E c \in DOMAIN calls :
           \/ providerSettles(c, 1, TRUE, Answers[2])
           \/ providerSettles(c, 1, FALSE, NoAnalysis)
    \/ \E c \in DOMAIN calls : analyzeInputResume(c)
    \/ \E c \in DOMAIN calls : analyzeOutputResume(c)

SpecLog == InitLog /\ [][NextLog]_vars

\* C13: whatever the interleaving of the calls of analyzeInput,
\* analyzeOutputSafety and clearLogs, securityLogs holds at most MAX_LOGS
\* (1000) entries
LogWithinCapacity == Len(securityLogs) <= MAX_LOGS

\* the log was full; the second call started while the first awaited the
\* council and returned before it, and both entries evicted an older one
LogWithinCapacityWitness ==
    /\ Len(calls) = 2
    /\ calls[1].pc = "returned" /\ calls[1].invoked
    /\ calls[2].pc = "returned"
    /\ calls[1].decision # calls[2].decision
    /\ Len(securityLogs) = MAX_LOGS
    /\ securityLogs[MAX_LOGS].decision = calls[1].decision
    /\ securityLogs[MAX_LOGS - 1].decision = calls[2].decision
    /\ securityLogs[MAX_LOGS - 2].decision = Timed(LengthDecision, 0)

(***************************************************************************)
(* getSecurityLogs and getStats on their own: a log and the argument are   *)
(* drawn, then the function is applied to the log.                         *)
(***************************************************************************)
MaxEntries == 3
MaxLimit == 4

\* Array.prototype.slice(start): a negative start counts from the end, and
\* -0 is 0
Slice(s, start) ==
    SubSeq(s, (IF start < 0 THEN Max2(Len(s) + start, 0) ELSE Min2(start, Len(s))) + 1,
           Len(s))
\* Array.prototype.reverse
Reverse(s) == [i \in 1..Len(s) |-> s[Len(s) + 1 - i]]

\* securityLogs.slice(-limit).reverse(), limit being 50 when not given
getSecurityLogs(logs, limit) ==
    Reverse(Slice(logs, 0 - (IF limit = Absent THEN 50 ELSE limit[1])))

\* entries that calls leave in the log: a length-check block, and the
\* decisions on a clean output and on one with an e-mail address and a
\* phone number
TrialEntries ==
    {SecurityLog(Timed(LengthDecision, 12)),
     SecurityLog(Timed(OutputDecision(DEFAULT_POLICY, <<analyzeOutput(Outputs[1])>>,
                                      <<Used("output_validator", "", "")>>,
                                      <<Note("output validator used", "", 0)>>), 0)),
     SecurityLog(Timed(OutputDecision(DEFAULT_POLICY, <<analyzeOutput(Outputs[2])>>,
                                      <<Used("output_validator", "", "")>>,
                                      <<Note("output validator used", "", 0)>>), 0))}

\* the action of a log entry
ActionOfLog(log) == log.decision.action
\* how many entries of the log have that action
CountAction(logs, action) ==
    Cardinality({i \in 1..Len(logs) : ActionOfLog(logs[i]) = action})

\* the analyses of the log's decisions that name an attack type, each as
\* <<entry, analysis>>
NamedAnalyses(logs) ==
    {p \in UNION {{<<i, j>> : j \in 1..Len(logs[i].decision.analyses)} :
                      i \in 1..Len(logs)} :
        logs[p[1]].decision.analyses[p[2]].attackType # "none"}
\* attackTypes[t] = (attackTypes[t] || 0) + 1 over those analyses
AttackTypes(logs, named) ==
    [t \in {logs[p[1]].decision.analyses[p[2]].attackType : p \in named} |->
        Cardinality({p \in named :
            logs[p[1]].decision.analyses[p[2]].attackType = t})]

\* the percentage cut off instead of rounded
BlockRateFloored(blocked, total) ==
    IF total > 0 THEN (100 * blocked) \div total ELSE 0

\* total > 0 ? Math.round((blocked / total) * 100) : 0
BlockRate(blocked, total) ==
    IF total > 0
    THEN FRound(FMul(FDiv(FFromInt(blocked), FFromInt(total)), FFromInt(100)))
    ELSE 0

\* total > 0 ? Math.round(sum of totalLatency / total) : 0
AvgLatency(sum, total) ==
    IF total > 0 THEN FRound(FDiv(FFromInt(sum), FFromInt(total))) ELSE 0

getStats(logs) ==
    [total |-> Len(logs),
     blocked |-> CountAction(logs, "block"),
     flagged |-> CountAction(logs, "flag"),
     allowed |-> CountAction(logs, "allow"),
     blockRate |-> BlockRate(CountAction(logs, "block"), Len(logs)),
     attackTypes |-> AttackTypes(logs, NamedAnalyses(logs)),
     avgLatency |-> AvgLatency(SumOf([i \in 1..Len(logs) |->
                                         logs[i].decision.totalLatency]), Len(logs))]

\* a longer log: blocked blocks, then one flag, then allows up to total
Mixed(blocked, total) ==
    [i \in 1..total |->
        IF i <= blocked THEN SecurityLog(Timed(LengthDecision, 12))
        ELSE SecurityLog(Timed(OutputDecision(DEFAULT_POLICY,
                 <<analyzeOutput(Outputs[IF i = blocked + 1 THEN 2 ELSE 1])>>,
                 <<Used("output_validator", "", "")>>,
                 <<Note("output validator used", "", 0)>>), 0))]
\* the blocks and the sizes of the longer logs
MixedSizes == {<<1, 8>>, <<23, 40>>, <<2, 3>>}

InitDashboard ==
    /\ env = Envs[1]
    /\ globalPolicy = DEFAULT_POLICY
    /\ \/ \E n \in 0..MaxEntries : securityLogs \in [1..n -> TrialEntries]
       \/ \E z \in MixedSizes : securityLogs = Mixed(z[1], z[2])
    /\ calls = <<>>
    /\ admin = 0
    /\ \/ \E limit \in {Absent} \cup {Some(n) : n \in 0..MaxLimit} :
              trial = [fn |-> "getSecurityLogs", limit |-> limit, out |-> <<>>]
       \/ trial = [fn |-> "getStats", out |-> <<>>]

\* the dashboard reads the log
recent ==
    /\ trial.fn = "getSecurityLogs"
    /\ trial.out = <<>>
    /\ trial' = [trial EXCEPT !.out = <<getSecurityLogs(securityLogs, trial.limit)>>]
    /\ UNCHANGED <<env, globalPolicy, securityLogs, calls, admin>>

\* the dashboard reads the statistics
stats ==
    /\ trial.fn = "getStats"
    /\ trial.out = <<>>
    /\ trial' = [trial EXCEPT !.out = <<getStats(securityLogs)>>]
    /\ UNCHANGED <<env, globalPolicy, securityLogs, calls, admin>>

NextDashboard == recent \/ stats

SpecDashboard == InitDashboard /\ [][NextDashboard]_vars

\* C14: for every log and every n >= 0, n = 0 and n beyond the size of the
\* log included, getSecurityLogs(n) returns min(n, size) entries: the most
\* recently appended ones, the newest first
RecentNewestFirst ==
    (trial.fn = "getSecurityLogs" /\ trial.out # <<>> /\ trial.limit # Absent)
    => trial.out[1]
           = [i \in 1..Min2(trial.limit[1], Len(securityLogs)) |->
                 securityLogs[Len(securityLogs) + 1 - i]]

\* getStats has been applied to the log
StatsRead == trial.fn = "getStats" /\ trial.out # <<>>

JNumber(n) == [type |-> "number", value |-> n]
JString(t) == [type |-> "string", value |-> t]
JArray(a) == [type |-> "array", value |-> a]
JBool(b) == [type |-> "boolean", value |-> b]
JNull == [type |-> "null", value |-> 0]

\* NaN, held as a value that no number of the model takes
NaN == 0 - 1000000

\* Number(v); the strings and arrays of the model are not numerals
ToNumber(v) ==
    IF v.type = "number" THEN v.value
    ELSE IF v.type = "null" THEN 0
    ELSE IF v.type = "boolean" THEN (IF v.value THEN 1 ELSE 0)
    ELSE NaN

\* Boolean(v)
ToBoolean(v) ==
    IF v.type = "number" THEN v.value # 0
    ELSE IF v.type = "null" THEN FALSE
    ELSE IF v.type = "boolean" THEN v.value
    ELSE IF v.type = "string" THEN v.value # ""
    ELSE TRUE

\* Math.max(lo, Math.min(hi, x)), which is NaN for NaN
Clamp(lo, hi, x) == IF x = NaN THEN NaN ELSE Max2(lo, Min2(hi, x))

ArrayFields == {"enabledAnalyzers", "customPatterns", "blockedTopics"}
PercentFields == {"flagThreshold", "blockThreshold", "llmSkipLow", "llmSkipHigh"}

\* the handler answers 400: a field that must be an array is not one
Rejected(body) == \E f \in ArrayFields \cap DOMAIN body : body[f].type # "array"

\* the patch as the handler rewrites it before it calls updateGlobalPolicy
Sanitized(body) ==
    [f \in DOMAIN body |->
        IF f \in PercentFields THEN Clamp(0, 100, ToNumber(body[f]))
        ELSE IF f = "maxInputLength" THEN Clamp(100, 100000, ToNumber(body[f]))
        ELSE IF f \in ArrayFields THEN body[f].value
        ELSE ToBoolean(body[f])]

\* request bodies: swapped thresholds; arrays and a flag; another array; a
\* threshold beyond 100; a threshold that is a word; an array field that is
\* a string; a length below the minimum and a number for a flag; a negative
\* threshold beside a null array
Bodies ==
    << [flagThreshold |-> JNumber(70), blockThreshold |-> JNumber(40)],
       [customPatterns |-> JArray(<<"hack", "(">>),
        blockedTopics |-> JArray(<<"weapons">>), outputLLMEnabled |-> JBool(TRUE)],
       [customPatterns |-> JArray(<<"drop table">>)],
       [flagThreshold |-> JNumber(150)],
       [blockThreshold |-> JString("high")],
       [enabledAnalyzers |-> JString("heuristic")],
       [maxInputLength |-> JNumber(3), alwaysRunLLM |-> JNumber(1)],
       [flagThreshold |-> JNumber(0 - 5), customPatterns |-> JNull] >>

InitConfig ==
    /\ env = Envs[1]
    /\ globalPolicy = DEFAULT_POLICY
    /\ securityLogs = <<>>
    /\ calls = <<>>
    /\ admin = 0
    /\ trial = NoTrial

\* app.put('/api/waf/config'): the response's status, the patch handed to
\* updateGlobalPolicy and the policy before the request are kept in trial
putConfig(body) ==
    /\ globalPolicy' = IF Rejected(body) THEN globalPolicy
                       ELSE PatchedPolicy(globalPolicy, Sanitized(body))
    /\ trial' = [fn |-> "putConfig", body |-> body, before |-> globalPolicy,
                 status |-> IF Rejected(body) THEN 400 ELSE 200,
                 patch |-> IF Rejected(body) THEN NoPatch ELSE Sanitized(body)]
    /\ UNCHANGED <<env, securityLogs, calls, admin>>

\* app.post('/api/waf/config/reset')
resetConfig ==
    /\ globalPolicy' = DEFAULT_POLICY
    /\ trial' = [fn |-> "resetConfig", before |-> globalPolicy, status |-> 200]
    /\ UNCHANGED <<env, securityLogs, calls, admin>>

NextConfig ==
    \/ \E b \in DOMAIN Bodies : putConfig(Bodies[b])
    \/ resetConfig

SpecConfig == InitConfig /\ [][NextConfig]_vars

\* the last request was a PUT that the handler accepted
Updated == trial.fn = "putConfig" /\ trial.status = 200

\* C16: after updateGlobalPolicy(patch) every field of the patch holds the
\* patch's value, every other field holds the value it had before, and an
\* array field of the patch is the patch's array, never the previous array
\* with the patch's appended
MergePatch ==
    Updated
    => \A f \in DOMAIN globalPolicy :
           globalPolicy[f] = IF f \in DOMAIN trial.patch THEN trial.patch[f]
                             ELSE trial.before[f]

\* the patch replaces a stored array that was not empty, and a field that
\* an earlier patch had set keeps its value
MergePatchWitness ==
    /\ Updated
    /\ trial.before.customPatterns = <<"hack", "(">>
    /\ trial.before.flagThreshold = 70
    /\ trial.patch = [customPatterns |-> <<"drop table">>]
    /\ globalPolicy.customPatterns = <<"drop table">>
    /\ globalPolicy.flagThreshold = 70

\* C17: after any sequence of updates and resets the stored policy has
\* flagThreshold <= blockThreshold
ThresholdsOrdered ==
    /\ globalPolicy.flagThreshold # NaN
    /\ globalPolicy.blockThreshold # NaN
    /\ globalPolicy.flagThreshold <= globalPolicy.blockThreshold

\* the body gives flagThreshold or blockThreshold a number outside 0..100,
\* or gives a field a value of another type than the policy's
Invalid(body) ==
    \/ \E f \in {"flagThreshold", "blockThreshold"} \cap DOMAIN body :
           body[f].type = "number" /\ body[f].value \notin 0..100
    \/ \E f \in (PercentFields \cup {"maxInputLength"}) \cap DOMAIN body :
           body[f].type # "number"
    \/ \E f \in ArrayFields \cap DOMAIN body : body[f].type # "array"
    \/ \E f \in {"alwaysRunLLM", "outputLLMEnabled"} \cap DOMAIN body :
           body[f].type # "boolean"

\* C18: an update that gives flagThreshold or blockThreshold a value outside
\* 0..100, or gives a field a value of the wrong type, is answered with an
\* error and leaves every field of the stored policy as it was
InvalidUpdateRejected ==
    (trial.fn = "putConfig" /\ Invalid(trial.body))
    => (trial.status # 200 /\ globalPolicy = trial.before)

(***************************************************************************)
(* Calls of analyzeInput with and without request.policy, one after the    *)
(* other or interleaved, beside the dashboard's updates.  The providers    *)
(* configured lack their keys, so the council fails at once.               *)
(***************************************************************************)
MaxOverrideCalls == 2

InitOverride ==
    /\ env = Envs[2]
    /\ globalPolicy = DEFAULT_POLICY
    /\ securityLogs = <<>>
    /\ calls = <<>>
    /\ admin = 0
    /\ trial = NoTrial

NextOverride ==
    \/ \E p \in DOMAIN Patches : updateGlobalPolicy(Patches[p])
    \/ resetGlobalPolicy
    \/ \E t \in {2, 3}, p \in DOMAIN RequestPolicies :
           Len(calls) < MaxOverrideCalls
           /\ analyzeInputStart(Inputs[t], RequestPolicies[p])
    \/ \E c \in DOMAIN calls : analyzeInputResume(c)

SpecOverride == InitOverride /\ [][NextOverride]_vars

\* the decision of a returned call is the one its own policy asks for: the
\* length check reads the policy's maxInputLength, the action its thresholds
DecidedUnder(call) ==
    IF call.input.length > call.policy.maxInputLength
    THEN IsLengthBlock(call.decision)
    ELSE call.decision.action
             = (IF call.decision.overallScore >= call.policy.blockThreshold THEN "block"
                ELSE IF call.decision.overallScore >= call.policy.flagThreshold THEN "flag"
                ELSE "allow")

\* C19: a call of analyzeInput is decided under the process-wide policy
\* with the fields of its request.policy put in their place, field by
\* field, and no step of the call changes the process-wide policy, so that
\* getGlobalPolicy and the calls without request.policy see it unchanged
OverrideShadows ==
    /\ [](\A c \in ReturnedInputs : DecidedUnder(calls[c]))
    /\ [][/\ calls' # calls => globalPolicy' = globalPolicy
          /\ Len(calls') > Len(calls)
             => \A f \in DOMAIN globalPolicy :
                    calls'[Len(calls')].policy[f]
                        = IF f \in DOMAIN calls'[Len(calls')].requestPolicy
                          THEN calls'[Len(calls')].requestPolicy[f]
                          ELSE globalPolicy[f]]_vars

\* the first call's request.policy lowers maxInputLength and the call is
\* blocked for its length; the second call, on the same input without
\* request.policy, runs under the untouched process-wide policy and is not
OverrideShadowsWitness ==
    /\ Len(calls) = 2
    /\ DOMAIN calls[1].requestPolicy = {"maxInputLength"}
    /\ calls[1].pc = "returned" /\ IsLengthBlock(calls[1].decision)
    /\ DOMAIN calls[2].requestPolicy = {}
    /\ calls[2].input = calls[1].input
    /\ calls[2].pc = "returned" /\ ~IsLengthBlock(calls[2].decision)
    /\ calls[2].policy = DEFAULT_POLICY
    /\ globalPolicy = DEFAULT_POLICY
    /\ admin = 0

(***************************************************************************)
(* Progress.  Once Promise.all has resolved, the event loop runs the rest  *)
(* of the call; nothing makes a provider's request end.                    *)
(***************************************************************************)
\* three providers are configured, each with its key
InitLive ==
    /\ env = Envs[1]
    /\ globalPolicy = DEFAULT_POLICY
    /\ securityLogs = <<>>
    /\ calls = <<>>
    /\ admin = 0
    /\ trial = NoTrial

\* requests whose policy has the council alone decide, on every input
NextLive ==
    \/ \E t \in {1, 2, 3} :
           Len(calls) < MaxCalls /\ analyzeInputStart(Inputs[t], Patches[2])
    \/ \E c \in DOMAIN calls, i \in 1..MaxProviders :
           /\ i <= Len(calls[c].results)
           /\ \/ \E a \in DOMAIN Answers : providerSettles(c, i, TRUE, Answers[a])
              \/ providerSettles(c, i, FALSE, NoAnalysis)
    \/ \E c \in DOMAIN calls : analyzeInputResume(c)

SpecLive ==
    /\ InitLive
    /\ [][NextLive]_vars
    /\ WF_vars(\E c \in DOMAIN calls : analyzeInputResume(c))

\* C20: every call of analyzeInput that has called the council returns in
\* the end, even when a provider never answers
CouncilCallsReturn ==
    \A c \in 1..MaxCalls :
        (c \in DOMAIN calls /\ calls[c].scanType = "input" /\ calls[c].invoked)
        ~> (c \in DOMAIN calls /\ calls[c].pc = "returned")

(***************************************************************************)
(* The fan-out of the council: one call per configured provider, and the  *)
(* verdict taken once every call has settled.                              *)
(***************************************************************************)
\* the calls that have called analyzeWithLLMCouncil
InvokedCalls == {c \in DOMAIN calls : calls[c].invoked}
ReturnedInvoked == {c \in InvokedCalls : calls[c].pc = "returned"}

\* the configured providers, in their order
ConfiguredNames ==
    [i \in 1..Len(getProviderConfigs(env)) |-> getProviderConfigs(env)[i].name]

\* the council's analysis in a returned decision: the one pushed last
CouncilAnalysisOf(call) == call.decision.analyses[Len(call.decision.analyses)]

\* the verdict over the successful results alone
VerdictOfSuccessful(call) ==
    DecisionOf(Successful(call.results), call.policy.blockThreshold,
               call.policy.flagThreshold)

ReducedFromSuccessful(call) ==
    /\ call.decision.analyses # <<>>
    /\ CouncilAnalysisOf(call) =
           Analysis("llm_council", VerdictOfSuccessful(call).score,
                    VerdictOfSuccessful(call).attackType,
                    VerdictOfSuccessful(call).threatLevel,
                    VerdictOfSuccessful(call).confidence)

FailuresNoted(call) ==
    \A i \in 1..Len(call.results) :
        call.results[i].status = "error"
        => \E n \in 1..Len(call.decision.notes) :
               call.decision.notes[n] = Note("analyzer discarded", call.results[i].provider, 0)

\* every provider call of the council has ended
NonePending(call) ==
    \A i \in 1..Len(call.results) : call.results[i].status \in {"success", "error"}

\* a step changes at most one provider's outcome of a call, and never a settled one
OneOutcomeSettles(c) ==
    /\ c \in DOMAIN calls'
    /\ Len(calls'[c].results) = Len(calls[c].results)
    /\ Cardinality({i \in 1..Len(calls[c].results) :
                       calls'[c].results[i] # calls[c].results[i]}) <= 1
    /\ \A i \in 1..Len(calls[c].results) :
           calls[c].results[i].status # "pending"
           => calls'[c].results[i] = calls[c].results[i]

\* C21: a council call holds one outcome for each configured provider, in
\* their order; a call returns only when every outcome has settled; a step
\* settles one outcome and leaves the settled ones as they are; and when a
\* provider succeeded, the returned decision carries the verdict of the
\* successful outcomes alone and a note for every failed provider
CouncilWaitsForAll ==
    /\ [](\A c \in InvokedCalls : ProvidersOf(calls[c].results) = ConfiguredNames)
    /\ [](\A c \in ReturnedInvoked :
            /\ NonePending(calls[c])
            /\ Successful(calls[c].results) # <<>>
               => ReducedFromSuccessful(calls[c]) /\ FailuresNoted(calls[c]))
    /\ [][\A c \in InvokedCalls : OneOutcomeSettles(c)]_vars

\* a call has returned from a council of three in which one provider failed
\* and another succeeded
CouncilWaitsForAllWitness ==
    \E c \in ReturnedInvoked :
        /\ Len(calls[c].results) = 3
        /\ \E i, j \in 1..3 : /\ calls[c].results[i].status = "error"
                              /\ calls[c].results[j].status = "success"

(***************************************************************************)
(* A detector that throws.  checkBlockedTopics throws on a topic that is   *)
(* no string, analyzeOutput on a system prompt that is a long array; the   *)
(* routes of the server answer 500 from their catch.                       *)
(***************************************************************************)
MaxThrowCalls == 2

\* the status the routes /api/waf/analyze and /api/waf/validate-output answer
StatusOf(call) ==
    IF call.pc = "threw" THEN 500
    ELSE IF call.decision.action = "block" THEN 403
    ELSE 200

\* a policy patch whose topics hold a number
NumberTopic == [blockedTopics |-> <<"weapons", "5">>]
\* an output sent with a system prompt that is an array of 41 elements
ArrayPromptOutput == Spread(Outputs[2], [systemPrompt |-> "long array"])

InitThrow ==
    /\ env = Envs[3]
    /\ globalPolicy = DEFAULT_POLICY
    /\ securityLogs = <<>>
    /\ calls = <<>>
    /\ admin = 0
    /\ trial = NoTrial

NextThrow ==
    \/ updateGlobalPolicy(Patches[4])
    \/ updateGlobalPolicy(NumberTopic)
    \/ \E t \in DOMAIN Inputs, rp \in {NoPatch, NumberTopic, [blockedTopics |-> <<>>]} :
           Len(calls) < MaxThrowCalls /\ analyzeInputStart(Inputs[t], rp)
    \/ \E o \in {Outputs[2], ArrayPromptOutput} :
           Len(calls) < MaxThrowCalls /\ analyzeOutputStart(o)
    \/ \E c \in DOMAIN calls :
           \/ providerSettles(c, 1, TRUE, Answers[2])
           \/ providerSettles(c, 1, FALSE, NoAnalysis)
    \/ \E c \in DOMAIN calls : analyzeInputResume(c)
    \/ \E c \in DOMAIN calls : analyzeOutputResume(c)

SpecThrow == InitThrow /\ [][NextThrow]_vars

\* the call's request makes a detector throw
DetectorThrew(call) ==
    IF call.scanType = "input"
    THEN call.input.length <= call.policy.maxInputLength
         /\ \E i \in 1..Len(call.policy.blockedTopics) :
                call.policy.blockedTopics[i] \in NonStringTopics
    ELSE "systemPrompt" \in DOMAIN call.input

ThrownCalls == {c \in DOMAIN calls : DetectorThrew(calls[c])}

PendingCalls == {c \in DOMAIN calls : calls[c].pc = "council"}

\* C22: a call in which a local detector threw is answered with status 500,
\* carries no decision, and the step in which it threw appended nothing to
\* the log; the log holds one entry for each of the other calls that ended
ThrowIsAnError ==
    /\ [](\A c \in ThrownCalls :
            /\ calls[c].pc = "threw"
            /\ StatusOf(calls[c]) = 500
            /\ calls[c].decision = NoDecision
            /\ calls[c].decision.action # "allow")
    /\ [](Len(securityLogs) = Cardinality(DOMAIN calls \ (ThrownCalls \cup PendingCalls)))
    /\ [][\A c \in DOMAIN calls' :
            (c \notin DOMAIN calls /\ DetectorThrew(calls'[c]))
            => securityLogs' = securityLogs]_vars

\* a call of analyzeInput and a call of analyzeOutputSafety have thrown
ThrowIsAnErrorWitness ==
    \E c, d \in ThrownCalls :
        /\ calls[c].scanType = "input" /\ calls[c].pc = "threw"
        /\ calls[d].scanType = "output" /\ calls[d].pc = "threw"

(***************************************************************************)
(* The gate of the council in analyzeOutputSafety.                         *)
(***************************************************************************)
MaxGateCalls == 2

\* patches of the dashboard that set the two fields the gate reads
GatePatches ==
    {[outputLLMEnabled |-> b, enabledAnalyzers |-> e] :
        b \in BOOLEAN, e \in {<<"heuristic", "llm_intent">>, <<"heuristic">>, <<>>}}

InitGate ==
    /\ env = Envs[3]
    /\ globalPolicy = DEFAULT_POLICY
    /\ securityLogs = <<>>
    /\ calls = <<>>
    /\ admin = 0
    /\ trial = NoTrial

NextGate ==
    \/ \E patch \in GatePatches : updateGlobalPolicy(patch)
    \/ \E t \in DOMAIN Outputs :
           Len(calls) < MaxGateCalls /\ analyzeOutputStart(Outputs[t])
    \/ \E c \in DOMAIN calls :
           \/ providerSettles(c, 1, TRUE, Answers[2])
           \/ providerSettles(c, 1, FALSE, NoAnalysis)
    \/ \E c \in DOMAIN calls : analyzeOutputResume(c)

SpecGate == InitGate /\ [][NextGate]_vars

OutputCalls == {c \in DOMAIN calls : calls[c].scanType = "output"}

\* C23: a call of analyzeOutputSafety calls the council exactly when its
\* policy has outputLLMEnabled set, whatever the other fields are
OutputGateIsTheFlag ==
    \A c \in OutputCalls : calls[c].invoked <=> calls[c].policy.outputLLMEnabled

(***************************************************************************)
(* Two calls of analyzeInput side by side.                                 *)
(***************************************************************************)
MaxTwinCalls == 2

InitTwins ==
    /\ env = Env(<<"anthropic", "openai">>, Absent, FALSE,
                 {"ANTHROPIC_API_KEY", "OPENAI_API_KEY"})
    /\ globalPolicy = DEFAULT_POLICY
    /\ securityLogs = <<>>
    /\ calls = <<>>
    /\ admin = 0
    /\ trial = NoTrial

NextTwins ==
    \/ updateGlobalPolicy(Patches[1])
    \/ \E t \in {2, 4}, rp \in {1, 3} :
           Len(calls) < MaxTwinCalls /\ analyzeInputStart(Inputs[t], RequestPolicies[rp])
    \/ \E c \in DOMAIN calls, i \in 1..2 :
           /\ i <= Len(calls[c].results)
           /\ \/ \E a \in {2, 3} : providerSettles(c, i, TRUE, Answers[a])
              \/ providerSettles(c, i, FALSE, NoAnalysis)
    \/ \E c \in DOMAIN calls : analyzeInputResume(c)

SpecTwins == InitTwins /\ [][NextTwins]_vars

\* the same fields with the same values
SameRecord(p, q) == DOMAIN p = DOMAIN q /\ \A f \in DOMAIN p : p[f] = q[f]

\* two calls with the same policy, override and input, whose providers ended
\* the same way
SameRequest(a, b) ==
    /\ a.input = b.input
    /\ SameRecord(a.requestPolicy, b.requestPolicy)
    /\ a.policy = b.policy
    /\ a.results = b.results

SameDecision(x, y) ==
    /\ x.action = y.action
    /\ x.overallScore = y.overallScore
    /\ x.threatLevel = y.threatLevel
    /\ x.analyses = y.analyses
    /\ x.analyzersUsed = y.analyzersUsed
    /\ x.notes = y.notes

InitSnapshot ==
    /\ env = Env(<<"anthropic", "openai">>, Absent, FALSE,
                 {"ANTHROPIC_API_KEY", "OPENAI_API_KEY"})
    /\ globalPolicy \in {DEFAULT_POLICY, PatchedPolicy(DEFAULT_POLICY, Patches[1])}
    /\ securityLogs = <<>>
    /\ calls = <<>>
    /\ admin = 0
    /\ trial = NoTrial

\* a call is suspended at its await
InFlight == \E c \in DOMAIN calls : calls[c].pc = "council"

NextSnapshot ==
    \/ \E p \in {1, 5} : InFlight /\ updateGlobalPolicy(Patches[p])
    \/ InFlight /\ resetGlobalPolicy
    \/ \E t \in {1, 2, 4}, rp \in {1, 3} :
           Len(calls) < MaxCalls /\ analyzeInputStart(Inputs[t], RequestPolicies[rp])
    \/ \E c \in DOMAIN calls, i \in 1..2 :
           /\ i <= Len(calls[c].results)
           /\ \/ \E a \in DOMAIN Answers : providerSettles(c, i, TRUE, Answers[a])
              \/ providerSettles(c, i, FALSE, NoAnalysis)
    \/ \E c \in DOMAIN calls : analyzeInputResume(c)

SpecSnapshot == InitSnapshot /\ [][NextSnapshot]_vars

\* the gate of the council under the call's own policy
GatedBySnapshot(call) ==
    /\ Includes(call.policy.enabledAnalyzers, "llm_intent")
    /\ ShouldRunLLM(call.policy,
                    TopScore(LocalAnalyses(call.input, call.policy).analyses))

\* the action and the council's votes under the call's own policy
DecidedBySnapshot(call) ==
    /\ call.decision.action =
           ActionOf(call.decision.overallScore >= call.policy.blockThreshold,
                    call.decision.overallScore >= call.policy.flagThreshold)
    /\ (call.invoked /\ Successful(call.results) # <<>>)
       => CouncilAnalysisOf(call).score = VerdictOfSuccessful(call).score

\* C25: the policy of a call is the stored policy of its start with the
\* request's fields over it, no later step changes it, and the gate of the
\* council, the council's votes and the action of the returned decision are
\* those of that policy, whatever the stored policy has become
PolicySnapshot ==
    /\ [](\A c \in DOMAIN calls :
            calls[c].input.length <= calls[c].policy.maxInputLength
            => (calls[c].invoked <=> GatedBySnapshot(calls[c])))
    /\ [](\A c \in ReturnedInputs : DecidedBySnapshot(calls[c]))
    /\ [][/\ \A c \in DOMAIN calls : calls'[c].policy = calls[c].policy
          /\ \A c \in DOMAIN calls' \ DOMAIN calls :
                calls'[c].policy = Spread(globalPolicy, calls'[c].requestPolicy)]_vars

\* a call has returned from the council after the dashboard swapped the
\* thresholds during its await
PolicySnapshotWitness ==
    \E c \in ReturnedInputs :
        /\ calls[c].invoked
        /\ admin = 1
        /\ calls[c].policy.blockThreshold # globalPolicy.blockThreshold
        /\ calls[c].decision.action #
               ActionOf(calls[c].decision.overallScore >= globalPolicy.blockThreshold,
                        calls[c].decision.overallScore >= globalPolicy.flagThreshold)

(***************************************************************************)
(* The pattern detector alone: requests whose policy enables only the      *)
(* heuristic, on texts that trigger any of six signals.                    *)
(***************************************************************************)
\* ignore_instructions, forget_everything, dan_jailbreak and a pattern of
\* score 40, then the special-character and the role-play checks
SignalTable ==
    << Signal(85, "prompt_injection", FALSE), Signal(75, "prompt_injection", FALSE),
       Signal(90, "jailbreak", FALSE), Signal(40, "social_engineering", FALSE),
       Signal(40, "none", TRUE), Signal(15, "none", TRUE) >>

\* the signals of the table that a text triggers, in the table's order
Triggered(picked) == SelectIdx(SignalTable, LAMBDA i : i \in picked, 1)

OnlyHeuristic == [enabledAnalyzers |-> <<"heuristic">>]

InitPattern ==
    /\ env = Envs[3]
    /\ globalPolicy = DEFAULT_POLICY
    /\ securityLogs = <<>>
    /\ calls = <<>>
    /\ admin = 0
    /\ trial = NoTrial

NextPattern ==
    \E picked \in SUBSET DOMAIN SignalTable :
        /\ Len(calls) < MaxCalls
        /\ analyzeInputStart(Text(40, {}, {}, Triggered(picked), 0, 0, 0), OnlyHeuristic)

SpecPattern == InitPattern /\ [][NextPattern]_vars

\* the policy of the claim: the pattern detector alone, thresholds 40 and 70
PatternOnly(call) ==
    /\ call.policy.enabledAnalyzers = <<"heuristic">>
    /\ call.policy.customPatterns = <<>>
    /\ call.policy.blockedTopics = <<>>
    /\ call.policy.flagThreshold = 40
    /\ call.policy.blockThreshold = 70
    /\ call.input.length <= call.policy.maxInputLength

\* the scores of the patterns that the text matched
MatchedScores(input) ==
    {input.signals[i].score : i \in {j \in 1..Len(input.signals) :
                                        ~input.signals[j].structural}}

\* C26: under the pattern detector alone with thresholds 40 and 70, the
\* overall score is the detector's score, it is at least every matched
\* pattern's score capped at 100, and a text matching the pattern of score
\* 85 is blocked
PatternScoreDecides ==
    \A c \in ReturnedInputs :
        PatternOnly(calls[c])
        => /\ Len(calls[c].decision.analyses) = 1
           /\ calls[c].decision.analyses[1].analyzer = "heuristic"
           /\ calls[c].decision.overallScore = calls[c].decision.analyses[1].score
           /\ \A m \in MatchedScores(calls[c].input) :
                  calls[c].decision.overallScore >= Min2(100, m)
           /\ 85 \in MatchedScores(calls[c].input) => calls[c].decision.action = "block"

\* a text that matched the pattern of score 85 beside weaker signals has
\* been decided
PatternScoreDecidesWitness ==
    \E c \in ReturnedInputs :
        /\ PatternOnly(calls[c])
        /\ MatchedScores(calls[c].input) = {85, 40}
        /\ Len(calls[c].input.signals) = 3
        /\ calls[c].decision.overallScore = 100

(***************************************************************************)
(* The order of the steps of analyzeInput, read from analyzersUsed, to     *)
(* which each step appends its tag when it has run.                        *)
(***************************************************************************)
\* the place of a step in the sequence
StepRank(used) ==
    IF used.tag = "length_check" THEN 0
    ELSE IF used.tag = "custom_patterns" THEN 1
    ELSE IF used.tag = "blocked_topics" THEN 2
    ELSE IF used.tag = "heuristic" /\ used.suffix = "" THEN 3
    ELSE IF used.tag = "llm_council" THEN 4
    ELSE IF used.tag = "llm" THEN 5
    ELSE 6

InStepOrder(analyzersUsed) ==
    \A i, j \in 1..Len(analyzersUsed) :
        i < j => /\ StepRank(analyzersUsed[i]) <= StepRank(analyzersUsed[j])
                 /\ StepRank(analyzersUsed[i]) = StepRank(analyzersUsed[j])
                    => analyzersUsed[i].tag = "llm"

IsPrefix(s, t) == Len(s) <= Len(t) /\ SubSeq(t, 1, Len(s)) = s

InputCalls == {c \in DOMAIN calls : calls[c].scanType = "input"}

\* C27: the steps that ran in a call of analyzeInput ran in the order length
\* check, custom patterns, blocked topics, heuristic, council; the providers
\* are called with the results of the local steps known; and a call whose
\* input is too long ran the length check alone and called no provider
StepsInSequence ==
    \A c \in InputCalls :
        /\ InStepOrder(calls[c].analyzersUsed)
        /\ calls[c].results # <<>>
           => /\ calls[c].invoked
              /\ IsPrefix(LocalAnalyses(calls[c].input, calls[c].policy).analyses,
                          calls[c].analyses)
              /\ calls[c].pc = "council"
                 => calls[c].analyses =
                        LocalAnalyses(calls[c].input, calls[c].policy).analyses
        /\ calls[c].input.length > calls[c].policy.maxInputLength
           => /\ calls[c].analyzersUsed = <<Used("length_check", "", "")>>
              /\ calls[c].analyses = <<>>
              /\ calls[c].results = <<>>
              /\ ~calls[c].invoked

\* a call has run the two matchers, the heuristic and the council
StepsInSequenceWitness ==
    \E c \in ReturnedInputs :
        /\ Len(calls[c].analyses) = 4
        /\ calls[c].invoked
        /\ \E i \in 1..Len(calls[c].results) : calls[c].results[i].status = "success"

(***************************************************************************)
(* councilDecision on providers that report a confidence of 0 and that     *)
(* name different attack types.                                            *)
(***************************************************************************)
VerdictScores == {10, 90}
VerdictConfidences == {Absent, Some(0), Some(60)}
VerdictAttacks == {"none", "jailbreak", "prompt_injection"}
VerdictOutcomes ==
    {[status |-> "success", analysis |-> LLMAnalysis(s, a, "high", c)] :
        s \in VerdictScores, a \in VerdictAttacks, c \in VerdictConfidences}
    \cup {[status |-> "error", analysis |-> NoAnalysis]}

InitVerdict ==
    /\ env = Envs[1]
    /\ globalPolicy = DEFAULT_POLICY
    /\ securityLogs = <<>>
    /\ calls = <<>>
    /\ admin = 0
    /\ \E n \in 0..MaxProviders : \E outcomes \in [1..n -> VerdictOutcomes] :
           trial = [fn |-> "councilDecision", results |-> ResultsOf(outcomes),
                    blockThreshold |-> 70, flagThreshold |-> 40, out |-> <<>>]

SpecVerdict == InitVerdict /\ [][NextCouncil]_vars

\* the trials of councilDecision that have run on two or more successes
VerdictOfSeveral ==
    /\ trial.fn = "councilDecision"
    /\ trial.out # <<>>
    /\ Len(Successful(trial.results)) >= 2

\* the confidence a provider reported, 50 when it reported none
Reported(r) == IF r.analysis.confidence = Absent THEN 50 ELSE r.analysis.confidence[1]

\* round(sum(score * confidence) / sum(confidence))
ReportedMean(successful) ==
    RoundDiv(SumOf([i \in 1..Len(successful) |->
                       successful[i].analysis.score * Reported(successful[i])]),
             SumOf([i \in 1..Len(successful) |-> Reported(successful[i])]))

\* no agreement rule applies: the verdict's score is the average
Unadjusted(successful) ==
    /\ \E i \in 1..Len(successful) : successful[i].analysis.score < 70
    /\ \/ \A i \in 1..Len(successful) : successful[i].analysis.score >= 40
       \/ 2 * Cardinality({i \in 1..Len(successful) :
                              successful[i].analysis.score >= 70}) <= Len(successful)

\* C28: for two or more successful providers whose reported confidences do
\* not sum to 0, the average before the agreement rules is the mean of the
\* scores weighted by the confidences as reported, 50 standing only for a
\* confidence that was not reported; where no agreement rule applies, it is
\* the score of the verdict
MeanByReportedConfidence ==
    (VerdictOfSeveral
     /\ SumOf([i \in 1..Len(Successful(trial.results)) |->
                  Reported(Successful(trial.results)[i])]) > 0)
    => /\ AvgScore(Successful(trial.results)) = ReportedMean(Successful(trial.results))
       /\ Unadjusted(Successful(trial.results))
          => trial.out[1].score = ReportedMean(Successful(trial.results))

\* how many successful providers reported the category, and the place of the
\* first that did
TimesReported(successful, a) ==
    Cardinality({i \in 1..Len(successful) : successful[i].analysis.attackType = a})
FirstReported(successful, a) ==
    CHOOSE i \in 1..Len(successful) :
        /\ successful[i].analysis.attackType = a
        /\ \A j \in 1..(i - 1) : successful[j].analysis.attackType # a
ReportedAttacks(successful) ==
    {successful[i].analysis.attackType : i \in 1..Len(successful)} \ {"none"}

\* the category wins the vote: no other was reported more often, and those
\* reported as often were first reported later
WinsVote(successful, a) ==
    /\ a \in ReportedAttacks(successful)
    /\ \A b \in ReportedAttacks(successful) \ {a} :
           \/ TimesReported(successful, b) < TimesReported(successful, a)
           \/ /\ TimesReported(successful, b) = TimesReported(successful, a)
              /\ FirstReported(successful, a) < FirstReported(successful, b)

\* C30: for two or more successful providers the verdict's attack type is
\* 'none' exactly when none of them reported another, and otherwise it is the
\* reported type that most of them reported, the one reported first among
\* those reported as often
AttackByMajority ==
    VerdictOfSeveral
    => /\ trial.out[1].attackType = "none"
          <=> ReportedAttacks(Successful(trial.results)) = {}
       /\ trial.out[1].attackType # "none"
          => WinsVote(Successful(trial.results), trial.out[1].attackType)

\* three providers have been decided: the first reported nothing, the other
\* two one category each, and the one of the second is the verdict's
AttackByMajorityWitness ==
    /\ VerdictOfSeveral
    /\ Len(Successful(trial.results)) = 3
    /\ trial.results[1].analysis.attackType = "none"
    /\ trial.results[2].analysis.attackType = "prompt_injection"
    /\ trial.results[3].analysis.attackType = "jailbreak"
    /\ trial.out[1].attackType = "prompt_injection"

(***************************************************************************)
(* calculateCombinedScore on results that carry a confidence of 0.         *)
(***************************************************************************)
\* results of analyzeInput's analyzers; the council's result carries the
\* confidence of its verdict, which is 0 for a council of no provider
BlendAnalyses ==
    {Analysis("custom_patterns", 65, "prompt_injection", "high", Absent),
     Analysis("blocked_topics", 70, "prompt_injection", "high", Absent),
     Analysis("heuristic", 50, "jailbreak", "medium", Absent),
     Analysis("llm_council", 86, "prompt_injection", "critical", Some(88)),
     Analysis("llm_council", 0, "none", "none", Some(0))}

InitBlend ==
    /\ env = Envs[1]
    /\ globalPolicy = DEFAULT_POLICY
    /\ securityLogs = <<>>
    /\ calls = <<>>
    /\ admin = 0
    /\ \E n \in 0..MaxAnalyses : \E analyses \in [1..n -> BlendAnalyses] :
           trial = [fn |-> "calculateCombinedScore", analyses |-> analyses,
                    shuffled |-> analyses, out |-> <<>>]

SpecBlend == InitBlend /\ [][NextCombine]_vars

\* the base weights in tenths
BaseTenths(analyzer) ==
    IF analyzer = "heuristic" THEN 4
    ELSE IF analyzer \in {"llm_intent", "llm_council"} THEN 6
    ELSE IF analyzer = "blocked_topics" THEN 7
    ELSE 5

\* the confidence a result carries, 80 when it carries none
Carried(analysis) ==
    IF analysis.confidence = Absent THEN 80 ELSE analysis.confidence[1]

\* sum(score * w * c) and sum(w * c), w in tenths and c in hundredths
CarriedSum(analyses) ==
    SumOf([i \in 1..Len(analyses) |->
              analyses[i].score * BaseTenths(analyses[i].analyzer) * Carried(analyses[i])])
CarriedWeight(analyses) ==
    SumOf([i \in 1..Len(analyses) |->
              BaseTenths(analyses[i].analyzer) * Carried(analyses[i])])

\* 0.6 * weighted_avg + 0.4 * max_score as the fraction BlendNum / BlendDen
BlendNum(analyses) ==
    IF CarriedWeight(analyses) = 0 THEN 4 * TopScore(analyses)
    ELSE 6 * CarriedSum(analyses) + 4 * TopScore(analyses) * CarriedWeight(analyses)
BlendDen(analyses) ==
    IF CarriedWeight(analyses) = 0 THEN 10 ELSE 10 * CarriedWeight(analyses)

\* n is a whole number nearest to num / den (either neighbour on a tie, where
\* the doubles of the code may fall on one side or the other)
Nearest(n, num, den) ==
    /\ 2 * (n * den - num) <= den
    /\ 2 * (num - n * den) <= den

\* C29: for two or more results the combined score is
\* round(0.6 * weighted_avg + 0.4 * max_score), the weights being the base
\* weights times the confidence each result carries (80 only when it
\* carries none, so a carried 0 gives no weight)
BlendByCarriedConfidence ==
    (/\ trial.fn = "calculateCombinedScore"
     /\ trial.out # <<>>
     /\ Len(trial.analyses) >= 2)
    => Nearest(trial.out[1], BlendNum(trial.analyses), BlendDen(trial.analyses))

(***************************************************************************)
(* The notes of the council.                                               *)
(***************************************************************************)
\* the lines of notes that quote a provider
ProviderLines(notes) == SelectIdx(notes, LAMBDA i : notes[i].provider # "", 1)

\* the line that the council writes for a provider's outcome
LineFits(line, result) ==
    /\ line.provider = result.provider
    /\ line.text = (IF result.status = "success" THEN "analyzer used"
                    ELSE "analyzer discarded")

\* C31: the notes of a decision that called the council hold one line for
\* each configured provider, in the order of the configuration, telling
\* whether that provider answered or failed, in whatever order the providers
\* have settled
NotesInConfiguredOrder ==
    \A c \in ReturnedInvoked :
        /\ Len(ProviderLines(calls[c].decision.notes)) = Len(ConfiguredNames)
        /\ \A i \in 1..Len(ConfiguredNames) :
               /\ ProviderLines(calls[c].decision.notes)[i].provider = ConfiguredNames[i]
               /\ LineFits(ProviderLines(calls[c].decision.notes)[i], calls[c].results[i])

\* a call has returned from a council of three whose second provider alone
\* answered
NotesInConfiguredOrderWitness ==
    \E c \in ReturnedInvoked :
        /\ Len(calls[c].results) = 3
        /\ calls[c].results[1].status = "error"
        /\ calls[c].results[2].status = "success"
        /\ calls[c].results[3].status = "error"

(***************************************************************************)
(* The entries of the decision log.                                        *)
(***************************************************************************)
\* the calls that return a decision in this step
Returning ==
    {c \in DOMAIN calls' :
        /\ calls'[c].pc = "returned"
        /\ c \in DOMAIN calls => calls[c].pc # "returned"}

\* the log has taken one entry at its end and has let go of its oldest
\* entries only
AppendedEvictingOldest ==
    /\ Len(securityLogs') = Min2(Len(securityLogs) + 1, MAX_LOGS)
    /\ \A i \in 1..(Len(securityLogs') - 1) :
           securityLogs'[i] = securityLogs[i + Len(securityLogs) + 1 - Len(securityLogs')]

\* C32: the step in which a decision returns appends its entry, keeps the
\* newest MAX_LOGS (1000) entries and leaves the retained ones as they were,
\* in their order; any other step leaves the log as it is or clears it
LogKeepsNewest ==
    [][IF Returning # {}
       THEN /\ AppendedEvictingOldest
            /\ \E c \in Returning :
                   securityLogs'[Len(securityLogs')].decision = calls'[c].decision
       ELSE securityLogs' = securityLogs \/ securityLogs' = <<>>]_vars

\* two decisions have been appended to a log that was at its capacity or one
\* short of it, and the oldest entries are gone
LogKeepsNewestWitness ==
    /\ Len(securityLogs) = MAX_LOGS
    /\ securityLogs[1].id = 2 - MAX_LOGS
    /\ securityLogs[MAX_LOGS - 1].id > 0
    /\ securityLogs[MAX_LOGS].id > 0

\* the entries of a log that carry the id
EntriesOf(logs, requestId) == {i \in 1..Len(logs) : logs[i].id = requestId}

\* the entry is the one of the call: its id, its decision, and the first 500
\* characters of its text at most
EntryOfCall(entry, c, call) ==
    /\ entry.id = c
    /\ entry.decision = call.decision
    /\ entry.input <= 500
    /\ entry.input <= call.input.length
    /\ call.input.length <= 500 => entry.input = call.input.length

\* C33: the step in which a call of analyzeInput or analyzeOutputSafety
\* returns a decision, the decision of the length check included, appends
\* one entry with the call's id, its decision and at most the first 500
\* characters of its text; the entry is in the log when the call returns and
\* no other entry ever carries that id
LoggedOnReturn ==
    /\ [][\A c \in Returning :
            /\ securityLogs' # <<>>
            /\ EntryOfCall(securityLogs'[Len(securityLogs')], c, calls'[c])
            /\ EntriesOf(securityLogs, c) = {}
            /\ Cardinality(EntriesOf(securityLogs', c)) = 1]_vars
    /\ [](\A c \in DOMAIN calls :
            Cardinality(EntriesOf(securityLogs, c)) <=
                (IF calls[c].pc = "returned" THEN 1 ELSE 0))

\* the length check has blocked an oversized input, a call of
\* analyzeOutputSafety has returned, and both entries are in the log
LoggedOnReturnWitness ==
    \E c, d \in ReturnedCalls :
        /\ calls[c].scanType = "input"
        /\ calls[c].input.length > calls[c].policy.maxInputLength
        /\ \E i \in EntriesOf(securityLogs, c) : securityLogs[i].input = 500
        /\ calls[d].scanType = "output"
        /\ EntriesOf(securityLogs, d) # {}

\* the calls of analyzeOutputSafety that have returned after a council of
\* which every attempted provider failed
OutputCouncilFailed ==
    {c \in ReturnedInvoked \cap OutputCalls :
        /\ calls[c].results # <<>>
        /\ \A i \in 1..Len(calls[c].results) : calls[c].results[i].status = "error"}

\* C34: when analyzeOutputSafety has called the council and every attempted
\* provider failed, the decision's analyses hold the output validator's result
\* and nothing else, overallScore is that result's score, analyzersUsed holds
\* llm_council(failed), notes hold the warning of the failed council, and no
\* further detector has run
OutputFailureKeepsValidator ==
    \A c \in OutputCouncilFailed :
        LET d == calls[c].decision
        IN  /\ d.analyses = <<analyzeOutput(calls[c].input)>>
            /\ d.overallScore = d.analyses[1].score
            /\ Includes(d.analyzersUsed, Used("llm_council", "", "(failed)"))
            /\ Includes(d.notes, Note(COUNCIL_FAILED_OUTPUT_NOTE, "", 0))
            /\ \A i \in 1..Len(d.analyzersUsed) :
                   d.analyzersUsed[i].tag \in {"output_validator", "llm_council", "llm"}
            /\ ~Includes(d.analyzersUsed, Used("llm_council", "", ""))

\* a call of analyzeOutputSafety has returned after each of several
\* providers failed, with a validator score above 0
OutputFailureKeepsValidatorWitness ==
    \E c \in OutputCouncilFailed :
        /\ Len(calls[c].results) > 1
        /\ calls[c].decision.action # "allow"

(***************************************************************************)
(* calculateCombinedScore on the lists analyzeOutputSafety and             *)
(* analyzeInput hand it: results of the output validator, whose score is   *)
(* not rounded, of the council and of the heuristic.                       *)
(***************************************************************************)
\* an output that breaks compliance (one indicator of weight 96) and holds
\* four words of the system prompt (65): the validator scores
\* max(96, 161 * 0.6)
LeakingBreach == Text(4, {}, {}, <<>>, 65, 0, 96)

RangeAnalyses ==
    << analyzeOutput(LeakingBreach),
       analyzeOutput(Outputs[4]),
       Analysis("llm_council", 96, "jailbreak", "critical", Some(20)),
       Analysis("llm_council", 97, "jailbreak", "critical", Some(50)),
       Analysis("llm_council", 90, "jailbreak", "critical", Some(100)),
       Analysis("llm_council", 0, "none", "none", Some(80)),
       Analysis("heuristic", 50, "jailbreak", "medium", Absent) >>

InitRange ==
    /\ env = Envs[1]
    /\ globalPolicy = DEFAULT_POLICY
    /\ securityLogs = <<>>
    /\ calls = <<>>
    /\ admin = 0
    /\ \E n \in 1..MaxAnalyses : \E drawn \in [1..n -> DOMAIN RangeAnalyses] :
           \* each analyzer has run once at most
           /\ \A i, j \in 1..n :
                  i # j => RangeAnalyses[drawn[i]].analyzer # RangeAnalyses[drawn[j]].analyzer
           /\ trial = [fn |-> "calculateCombinedScore",
                    analyses |-> [i \in 1..n |-> RangeAnalyses[drawn[i]]],
                    shuffled |-> [i \in 1..n |-> RangeAnalyses[drawn[i]]],
                    out |-> <<>>]

SpecRange == InitRange /\ [][NextCombine]_vars

\* a combined score as a double
CombinedOf(analyses) ==
    IF Len(analyses) = 1 THEN ScoreOf(analyses[1])
    ELSE FFromInt(calculateCombinedScore(analyses))

\* C35: for a list of one or more results with scores from 0 to 100,
\* calculateCombinedScore returns no less than the smallest score of the list
\* and no more than the largest
CombinedWithinScores ==
    (trial.fn = "calculateCombinedScore" /\ trial.out # <<>> /\ trial.analyses # <<>>) =>
        /\ \E i \in 1..Len(trial.analyses) :
               FCmp(ScoreOf(trial.analyses[i]), CombinedOf(trial.analyses)) <= 0
        /\ \E i \in 1..Len(trial.analyses) :
               FCmp(CombinedOf(trial.analyses), ScoreOf(trial.analyses[i])) <= 0

\* the decision's analyses hold a result of the council
HasCouncilAnalysis(decision) ==
    \E i \in 1..Len(decision.analyses) : decision.analyses[i].analyzer = "llm_council"

\* a provider of the call succeeded
SomeSucceeded(call) ==
    \E i \in 1..Len(call.results) : call.results[i].status = "success"

\* C36: a decision's analyses hold a result of the council only if a
\* provider of that call succeeded; with no success, the council of no
\* provider included, the neutral result of score 0 is not among the analyses
CouncilAnalysisNeedsSuccess ==
    \A c \in ReturnedCalls :
        HasCouncilAnalysis(calls[c].decision) => SomeSucceeded(calls[c])

\* how many elements of a sequence satisfy a test
CountOf(s, Test(_)) == Cardinality({i \in 1..Len(s) : Test(s[i])})

\* the entries llm_council, llm_council(skipped) and llm_council(failed)
CouncilEntries(analyzersUsed) ==
    CountOf(analyzersUsed, LAMBDA u : u.tag = "llm_council")

\* the entries llm:<p> with the suffix
ProviderEntries(analyzersUsed, p, suffix) ==
    CountOf(analyzersUsed, LAMBDA u : u.tag = "llm" /\ u.provider = p /\ u.suffix = suffix)

\* the provider calls of the name that ended with the status
ProviderOutcomes(results, p, status) ==
    CountOf(results, LAMBDA r : r.provider = p /\ r.status = status)

\* the calls of analyzeInput that returned a decision for an input within
\* maxInputLength
ScoredInputs ==
    {c \in ReturnedCalls \cap InputCalls : ~LengthExceeded(calls[c].input, calls[c].policy)}

\* C37: in a decision of analyzeInput for an input within maxInputLength,
\* when llm_intent is enabled analyzersUsed holds exactly one of llm_council,
\* llm_council(skipped) and llm_council(failed), and when the council was
\* called it holds one entry for each configured provider, llm:<p> for a
\* provider that succeeded and llm:<p>(failed) for one that failed; when
\* llm_intent is not enabled it holds none of these entries
CouncilEntriesTellTheRun ==
    \A c \in ScoredInputs :
        LET used == calls[c].decision.analyzersUsed
            names == {calls[c].results[i].provider : i \in 1..Len(calls[c].results)}
        IN  /\ CouncilEntries(used) =
                   (IF Includes(calls[c].policy.enabledAnalyzers, "llm_intent") THEN 1 ELSE 0)
            /\ calls[c].invoked <=>
                   (\E i \in 1..Len(used) :
                        used[i].tag = "llm_council" /\ used[i].suffix # "(skipped)")
            /\ CountOf(used, LAMBDA u : u.tag = "llm") = Len(calls[c].results)
            /\ \A p \in names :
                   /\ ProviderEntries(used, p, "") =
                          ProviderOutcomes(calls[c].results, p, "success")
                   /\ ProviderEntries(used, p, "(failed)") =
                          ProviderOutcomes(calls[c].results, p, "error")

\* a call of analyzeInput has returned after one of its providers succeeded
\* and another failed, and its decision names both
CouncilEntriesTellTheRunWitness ==
    \E c \in ScoredInputs :
        \E i, j \in 1..Len(calls[c].results) :
            /\ calls[c].results[i].status = "success"
            /\ calls[c].results[j].status = "error"
            /\ Includes(calls[c].decision.analyzersUsed,
                        Used("llm", calls[c].results[i].provider, ""))
            /\ Includes(calls[c].decision.analyzersUsed,
                        Used("llm", calls[c].results[j].provider, "(failed)"))

(***************************************************************************)
(* The policy objects and their arrays.  { ...x } copies the fields of x:  *)
(* a number or a boolean is copied, an array field is copied as the        *)
(* reference to the same array.  trial holds the arrays (heap), the        *)
(* objects DEFAULT_POLICY (defaults) and globalPolicy (stored) with their  *)
(* array fields as references, and the object the caller was last handed   *)
(* (held); the variable globalPolicy is the stored object read through its *)
(* references, which is what analyzeInput and analyzeOutputSafety read.    *)
(***************************************************************************)
MaxPolicyOps == 2
MaxPushed == 2

\* the array fields in the order of the literal
ArrayOrder == <<"enabledAnalyzers", "customPatterns", "blockedTopics">>
IsArrayField(f) == f \in ArrayFields

\* an object read through its references
Deref(object, heap) ==
    [f \in DOMAIN object |-> IF IsArrayField(f) THEN heap[object[f]] ELSE object[f]]

\* the array fields a patch carries, in that order
CarriedArrays(patch) == SelectSeq(ArrayOrder, LAMBDA f : f \in DOMAIN patch)

\* the caller's patch as an object: its arrays lie on the heap after the
\* arrays that are there
PatchObject(patch, heap) ==
    [f \in DOMAIN patch |->
        IF IsArrayField(f)
        THEN Len(heap) + (CHOOSE i \in DOMAIN CarriedArrays(patch) : CarriedArrays(patch)[i] = f)
        ELSE patch[f]]

\* what a caller adds to an array of the object it holds
PushedElement ==
    [enabledAnalyzers |-> "output_validator", customPatterns |-> "secret",
     blockedTopics |-> "weather"]

PolicyObjects(heap, defaults, stored, held, ops, pushed) ==
    [fn |-> "policy", heap |-> heap, defaults |-> defaults, stored |-> stored,
     held |-> held, ops |-> ops, pushed |-> pushed]

\* const DEFAULT_POLICY = {...}; let globalPolicy = { ...DEFAULT_POLICY }
InitShared ==
    /\ env = Envs[1]
    /\ globalPolicy = DEFAULT_POLICY
    /\ securityLogs = <<>>
    /\ calls = <<>>
    /\ admin = 0
    /\ trial = PolicyObjects([i \in DOMAIN ArrayOrder |-> DEFAULT_POLICY[ArrayOrder[i]]],
                             [f \in DOMAIN DEFAULT_POLICY |->
                                 IF IsArrayField(f)
                                 THEN CHOOSE i \in DOMAIN ArrayOrder : ArrayOrder[i] = f
                                 ELSE DEFAULT_POLICY[f]],
                             [f \in DOMAIN DEFAULT_POLICY |->
                                 IF IsArrayField(f)
                                 THEN CHOOSE i \in DOMAIN ArrayOrder : ArrayOrder[i] = f
                                 ELSE DEFAULT_POLICY[f]],
                             NoPatch, 0, 0)

\* the objects after a step, and the stored one as the calls will read it
PolicyStep(heap, stored, held, ops, pushed) ==
    /\ trial' = PolicyObjects(heap, trial.defaults, stored, held, ops, pushed)
    /\ globalPolicy' = Deref(stored, heap)
    /\ UNCHANGED <<env, securityLogs, calls, admin>>

\* return { ...globalPolicy }
getGlobalPolicy ==
    /\ trial.ops < MaxPolicyOps
    /\ PolicyStep(trial.heap, trial.stored, trial.stored, trial.ops + 1, trial.pushed)

\* globalPolicy = { ...globalPolicy, ...patch, ... }; return { ...globalPolicy }
updateGlobalPolicyShared(patch) ==
    /\ trial.ops < MaxPolicyOps
    /\ PolicyStep(trial.heap \o [i \in DOMAIN CarriedArrays(patch) |->
                                    patch[CarriedArrays(patch)[i]]],
                  PatchedPolicy(trial.stored, PatchObject(patch, trial.heap)),
                  PatchedPolicy(trial.stored, PatchObject(patch, trial.heap)),
                  trial.ops + 1, trial.pushed)

\* globalPolicy = { ...DEFAULT_POLICY }; return { ...globalPolicy }
resetGlobalPolicyShared ==
    /\ trial.ops < MaxPolicyOps
    /\ PolicyStep(trial.heap, trial.defaults, trial.defaults, trial.ops + 1, trial.pushed)

\* the caller adds an element to an array field of the object it holds
callerPushes(f) ==
    /\ trial.held # NoPatch
    /\ trial.pushed < MaxPushed
    /\ PolicyStep([trial.heap EXCEPT ![trial.held[f]] = Append(@, PushedElement[f])],
                  trial.stored, trial.held, trial.ops, trial.pushed + 1)

\* the caller assigns a field of the object it holds
callerAssigns(f, v) ==
    /\ trial.held # NoPatch
    /\ trial.held[f] # v
    /\ PolicyStep(trial.heap, trial.stored, [trial.held EXCEPT ![f] = v],
                  trial.ops, trial.pushed)

NextShared ==
    \/ getGlobalPolicy
    \/ \E p \in DOMAIN Patches : updateGlobalPolicyShared(Patches[p])
    \/ resetGlobalPolicyShared
    \/ \E f \in ArrayFields : callerPushes(f)
    \/ callerAssigns("flagThreshold", 0)
    \/ callerAssigns("alwaysRunLLM", TRUE)

SpecShared == InitShared /\ [][NextShared]_vars

\* a step of the caller: no operation of the module has run
CallerStep == trial'.ops = trial.ops

\* C38: what getGlobalPolicy, updateGlobalPolicy and resetGlobalPolicy return
\* is a snapshot: a caller that changes the returned object, adding elements
\* to its arrays included, changes neither the stored policy that later
\* calls read nor the defaults that resetGlobalPolicy restores
ReturnedPolicyIsSnapshot ==
    [][CallerStep =>
          /\ globalPolicy' = globalPolicy
          /\ Deref(trial'.defaults, trial'.heap) = Deref(trial.defaults, trial.heap)]_vars

====
